---- MODULE Spec2Model ----
(***************************************************************************)
(* Coordinator core of the OpenMesh pool: job dispatch, signed result      *)
(* submission with verification, token ledger and daily emission.          *)
(*                                                                         *)
(* Token amounts are integers counting quanta of 0.00000001 TOK, the       *)
(* scale of every Numeric(18, 8) column and of every quantize() call.      *)
(* Reputations are integers counting hundredths.  Time is counted in       *)
(* ticks, TicksPerDay of them to a UTC day.  NULL ids are written 0 and a  *)
(* NULL timestamp -1.                                                      *)
(***************************************************************************)
EXTENDS Integers, Sequences, FiniteSets, Bags, TLC

\* ---------------------------------------------------------------- bounds
MaxJobs == 2
MaxAssignments == 4
MaxConcurrentAssignments == 3
MaxTime == 2
MaxOpenTxns == 2
MaxSerialJobs == 1
MaxSerialTime == 1
MaxInterpoolEntries == 1
MaxAccountingJobs == 1
MaxVerifyJobs == 1
MaxRejections == 2
MaxBacklogJobs == 51
MaxCalls == 2
MaxGranted == 4
MaxSchedulerJobs == 1
MaxPayloadChars == 1001
MaxPolls == 3

\* ------------------------------------------------------- fixture and settings
Workers == {1, 2}
DispatchWorkers == 1..7
ClientUser == 2
NoUser == 0
NoWorker == 0

OwnerOf(w) == w

\* worker 6 has no worker_settings row, worker 7 does not accept new assignments
HasSettings(w) == w # 6

AcceptNewAssignments(w) == w # 7

MaxConcurrency(w) == IF w \in {1, 3} THEN 1 ELSE 2

DefaultEstimatedLatencyMs == 1000000
DefaultPriceMultiplier == 1

\* workers 4 and 5 carry no estimated_latency_ms in their specs
EstimatedLatencyMs(w) ==
    IF w = 1 THEN 100 ELSE IF w = 2 THEN 50 ELSE IF w = 3 THEN 500
    ELSE DefaultEstimatedLatencyMs

\* worker 3 asks twice the price, the others carry no price_multiplier
WorkerPriceMultiplier(w) == IF w = 3 THEN 2 ELSE DefaultPriceMultiplier

HeartbeatTimeoutTicks(w) == IF w = 1 THEN 1 ELSE 2

TicksPerDay == 2

DefaultReputation == 50

\* worker 3 registered with reputation 0.95, the others without one
InitialReputation(w) == IF w = 3 THEN 95 ELSE DefaultReputation
VerifiedReputationDelta == 1
RejectedReputationDelta == 0 - 5
FraudBanThreshold == 2
PoolFeeBps == 1000
UnitCostTokens == 5
DispatchLimit == 50
DailyEmissionBaseTokens == 4
DailyEmissionCapTokens == 3
EmbedThresholdNum == 197
EmbedThresholdDen == 200

Min(a, b) == IF a < b THEN a ELSE b
Max(a, b) == IF a > b THEN a ELSE b

\* Decimal.quantize(Decimal("0.00000001")) of the rational n / d (d > 0, n >= 0)
\* counted in quanta: ROUND_HALF_EVEN, the default rounding of the decimal context.
QuantizeHalfEven(n, d) ==
    LET q == n \div d
        r == n % d
    IN  IF 2 * r < d THEN q
        ELSE IF 2 * r > d THEN q + 1
        ELSE IF q % 2 = 0 THEN q ELSE q + 1

\* ---------------------------------------------------------------- state
VARIABLES
    now,          \* current UTC time in ticks
    workers,      \* worker id -> [status, reputation, rejected_submissions]
    heartbeats,   \* worker id -> the ticks holding a worker_heartbeats row of it
    jobs,         \* sequence of jobs rows, the index is the id
    assignments,  \* sequence of assignments rows, the index is the id
    results,      \* assignment id -> the results rows of that assignment
    accounts,     \* set of account keys that have a row
    balance,      \* account key -> balance
    ledger,       \* bag of ledger_entries rows
    dtx,          \* the open dispatcher tick transactions, one per instance
    stx,          \* the open submit transactions
    resp,         \* <<status code, detail>> of the submit response being sent,
                  \* NoResponse when none is
    events,       \* submit_rate_limiter._events: key -> the deque of recorded times
    calls,        \* the submit requests between their worker lookup and their
                  \* locking read of the assignment, each with its position
    granted,      \* history: key -> the calls allow() answered True, with the time
                  \* each read and the time it returned
    request,      \* history: the request the response being sent answers
    sched,        \* the stop event and the positions of the two background loops
                  \* and of the lifespan that started them
    gw,           \* the gateway request being served: its position, its deadline
                  \* and what the coordinator answered it
    etx           \* the open transactions of emission runs, one per trigger

db == <<workers, heartbeats, jobs, assignments, results, accounts, balance, ledger>>
process == <<events, calls, granted, request, sched, gw, etx>>
vars == <<now, workers, heartbeats, jobs, assignments, results, accounts, balance,
          ledger, dtx, stx, resp, process>>

NoRequest == [kind |-> "none", user |-> 0, worker |-> 0]

\* the gateway with no /v1/embed or /v1/rank request in progress
NoGatewayRequest ==
    [pc |-> "idle", timeout_at |-> 0, polls |-> 0, reported |-> "none",
     verified_at |-> 0 - 1, cancel |-> "none", answer |-> 0]

\* the coordinator as it starts to serve: nothing in flight, both loop tasks created
ProcessInit(registered) ==
    /\ events = [w \in registered |-> <<>>]
    /\ calls = {}
    /\ granted = [w \in registered |-> <<>>]
    /\ request = NoRequest
    /\ sched = [stop_event |-> FALSE, dispatch |-> "loop", emission |-> "loop",
                lifespan |-> "serving", invoked |-> FALSE, emitted_at |-> <<>>]
    /\ gw = NoGatewayRequest
    /\ etx = {}

NoResponse == <<0, "">>
OpenTxns == Cardinality(dtx) + Cardinality(stx)

PoolAccount == <<"system", 1>>
UserAccount(u) == <<"user", u>>
AccountKeys == {PoolAccount} \cup {UserAccount(u) : u \in {OwnerOf(w) : w \in Workers}
                                                              \cup {ClientUser}}

\* The kinds of job the creators insert: the gateway's client jobs, an audit job
\* carrying a canonical_expected_hash, and a demo job without a creator.
JobKinds ==
    { [created_by_user_id |-> ClientUser, canonical_expected_hash |-> "NULL",
       job_type |-> "embedding", priority |-> 5, price_multiplier |-> 1,
       payload_chars |-> 1000],
      [created_by_user_id |-> ClientUser, canonical_expected_hash |-> "expected-hash",
       job_type |-> "inference", priority |-> 0, price_multiplier |-> 1,
       payload_chars |-> 1500],
      [created_by_user_id |-> NoUser, canonical_expected_hash |-> "NULL",
       job_type |-> "inference", priority |-> 0, price_multiplier |-> 1,
       payload_chars |-> 40] }

InitFor(registered) ==
    /\ now = 0
    /\ workers = [w \in registered |->
                    [status |-> "offline", reputation |-> InitialReputation(w),
                     rejected_submissions |-> 0]]
    /\ heartbeats = [w \in registered |-> {}]
    /\ jobs = <<>>
    /\ assignments = <<>>
    /\ results = [a \in 1..MaxAssignments |-> <<>>]
    /\ accounts = {}
    /\ balance = [k \in AccountKeys |-> 0]
    /\ ledger = EmptyBag
    /\ dtx = {}
    /\ stx = {}
    /\ resp = NoResponse
    /\ ProcessInit(registered)

Init == InitFor(Workers)

\* ------------------------------------------------------------ environment
AdvanceTime ==
    /\ resp = NoResponse
    /\ now < MaxTime
    /\ now' = now + 1
    /\ resp' = NoResponse
    /\ UNCHANGED <<db, dtx, stx>>

WorkerIds == DOMAIN workers
JobIds == 1..Len(jobs)
AssignmentIds == 1..Len(assignments)

\* create_queued_job, reached from /internal/jobs/create, /admin/jobs/enqueue-demo
\* and /p2p/jobs/forward; an audit job is inserted with its canonical hash.
NewJob(kind) ==
    [status |-> "queued", created_by_user_id |-> kind.created_by_user_id,
     canonical_expected_hash |-> kind.canonical_expected_hash, job_type |-> kind.job_type,
     priority |-> kind.priority, price_multiplier |-> kind.price_multiplier,
     payload_chars |-> kind.payload_chars]

CreateJob(kind) ==
    /\ resp = NoResponse
    /\ jobs' = Append(jobs, NewJob(kind))
    /\ resp' = NoResponse
    /\ UNCHANGED <<now, workers, heartbeats, assignments, results, accounts, balance,
                   ledger, dtx, stx>>

NewAssignment(j, w, prefix, at) ==
    [job_id |-> j, worker_id |-> w, status |-> "assigned", assigned_at |-> at,
     finished_at |-> 0 - 1, nonce_prefix |-> prefix]

AssignmentsOfJob(j) == {a \in AssignmentIds : assignments[a].job_id = j}

\* The redundant second assignment of a running job that cross-verification compares
\* against; nothing in the coordinator creates it, the operator (the tests) inserts it.
SeedPeerAssignment(j, w) ==
    /\ resp = NoResponse
    /\ j \in JobIds
    /\ jobs[j].status = "running"
    /\ jobs[j].canonical_expected_hash = "NULL"
    /\ Cardinality(AssignmentsOfJob(j)) \in {1, 2}
    /\ Len(assignments) < MaxAssignments
    /\ assignments' = Append(assignments, NewAssignment(j, w, "seed", now))
    /\ resp' = NoResponse
    /\ UNCHANGED <<now, workers, heartbeats, jobs, results, accounts, balance, ledger,
                   dtx, stx>>

\* ---------------------------------------------------------------- heartbeat
HeartbeatWorker(w) == [workers EXCEPT ![w].status = "online"]

RECURSIVE SumOver(_, _)
SumOver(S, f) ==
    IF S = {} THEN 0
    ELSE LET x == CHOOSE y \in S : TRUE IN f[x] + SumOver(S \ {x}, f)

\* heartbeat_worker; the heartbeats a worker sends within one tick count as one row
Heartbeat(w) ==
    /\ resp = NoResponse
    /\ workers' = HeartbeatWorker(w)
    /\ heartbeats' = [heartbeats EXCEPT ![w] = @ \cup {now}]
    /\ resp' = NoResponse
    /\ UNCHANGED <<now, jobs, assignments, results, accounts, balance, ledger, dtx, stx>>

\* ---------------------------------------------------------------- dispatcher
JobBefore(x, y) ==
    \/ jobs[x].priority > jobs[y].priority
    \/ jobs[x].priority = jobs[y].priority /\ x < y

RECURSIVE OrderJobs(_)
OrderJobs(S) ==
    IF S = {} THEN <<>>
    ELSE LET j == CHOOSE x \in S : \A y \in S \ {x} : JobBefore(x, y)
         IN  <<j>> \o OrderJobs(S \ {j})

LockedJobs == UNION {t.claimed : t \in dtx}

\* SELECT ... WHERE status = queued ORDER BY priority DESC, id ASC LIMIT n
\* FOR UPDATE SKIP LOCKED
ClaimQueuedJobs_IgnoringLocks(locked) ==
    LET q == OrderJobs({j \in JobIds : jobs[j].status = "queued"})
    IN  SubSeq(q, 1, Min(Len(q), DispatchLimit))

ClaimQueuedJobs(locked) ==
    LET q == OrderJobs({j \in JobIds : jobs[j].status = "queued" /\ j \notin locked})
    IN  SubSeq(q, 1, Min(Len(q), DispatchLimit))

ActiveCount(w) ==
    Cardinality({a \in AssignmentIds :
                    /\ assignments[a].worker_id = w
                    /\ assignments[a].status \in {"assigned", "started"}})

OnlineWorkers == {w \in WorkerIds : workers[w].status = "online"}

Eligible_StaleLoad(w, j, counts) ==
    /\ HasSettings(w)
    /\ AcceptNewAssignments(w)
    /\ ActiveCount(w) < MaxConcurrency(w)
    /\ WorkerPriceMultiplier(w) <= jobs[j].price_multiplier

Eligible(w, j, counts) ==
    /\ HasSettings(w)
    /\ AcceptNewAssignments(w)
    /\ counts[w] < MaxConcurrency(w)
    /\ WorkerPriceMultiplier(w) <= jobs[j].price_multiplier

RankBefore_LatencyFirst(w, v, counts) ==
    LET rw == workers[w].reputation
        rv == workers[v].reputation
        lw == EstimatedLatencyMs(w)
        lv == EstimatedLatencyMs(v)
    IN  \/ lw < lv
        \/ lw = lv /\ rw > rv
        \/ rw = rv /\ lw = lv /\ counts[w] < counts[v]
        \/ rw = rv /\ lw = lv /\ counts[w] = counts[v] /\ w < v

\* candidates.sort(key = (-reputation, latency, load, worker id))
RankBefore(w, v, counts) ==
    LET rw == workers[w].reputation
        rv == workers[v].reputation
        lw == EstimatedLatencyMs(w)
        lv == EstimatedLatencyMs(v)
    IN  \/ rw > rv
        \/ rw = rv /\ lw < lv
        \/ rw = rv /\ lw = lv /\ counts[w] < counts[v]
        \/ rw = rv /\ lw = lv /\ counts[w] = counts[v] /\ w < v

RECURSIVE PlanTick(_, _, _)
PlanTick(queue, online, counts) ==
    IF queue = <<>> THEN <<>>
    ELSE LET j == Head(queue)
             cands == {w \in online : Eligible(w, j, counts)}
         IN  IF cands = {} THEN PlanTick(Tail(queue), online, counts)
             ELSE LET sel == CHOOSE w \in cands :
                                \A v \in cands \ {w} : RankBefore(w, v, counts)
                  IN  <<[job |-> j, worker |-> sel]>>
                      \o PlanTick(Tail(queue), online, [counts EXCEPT ![sel] = @ + 1])

\* assign_queued_jobs up to its return: the claim, the two reads and the loop.
DispatchBegin ==
    /\ resp = NoResponse
    /\ OpenTxns < MaxOpenTxns
    /\ LET queue == ClaimQueuedJobs(LockedJobs)
           online == OnlineWorkers
           counts == [w \in WorkerIds |-> ActiveCount(w)]
       IN  /\ queue # <<>>
           /\ dtx' = dtx \cup
                        {[claimed |-> {queue[k] : k \in 1..Len(queue)}, at |-> now,
                          plan |-> IF online = {} THEN <<>>
                                   ELSE PlanTick(queue, online, counts)]}
    /\ resp' = NoResponse
    /\ UNCHANGED <<now, db, stx>>

PlannedJobs(t) == {t.plan[k].job : k \in 1..Len(t.plan)}

\* _dispatch_loop: commit when the tick assigned something
DispatchCommit(t) ==
    /\ resp = NoResponse
    /\ t \in dtx
    /\ t.plan # <<>>
    /\ Len(assignments) + Len(t.plan) <= MaxAssignments
    /\ assignments' = assignments \o
            [k \in 1..Len(t.plan) |->
                NewAssignment(t.plan[k].job, t.plan[k].worker, "job", t.at)]
    /\ jobs' = [j \in JobIds |->
                  IF j \in PlannedJobs(t) THEN [jobs[j] EXCEPT !.status = "running"]
                  ELSE jobs[j]]
    /\ dtx' = dtx \ {t}
    /\ resp' = NoResponse
    /\ UNCHANGED <<now, workers, heartbeats, results, accounts, balance, ledger, stx>>

\* _dispatch_loop: rollback when nothing was assigned, or when the tick raised
DispatchRollback(t) ==
    /\ resp = NoResponse
    /\ t \in dtx
    /\ dtx' = dtx \ {t}
    /\ resp' = NoResponse
    /\ UNCHANGED <<now, db, stx>>

\* ---------------------------------------------------------------- submit
\* The request bodies: output <<>> is a body without a usable embedding (an error
\* submission has no output at all); hash_ok tells whether output_hash equals the
\* job's canonical_expected_hash.
Bodies ==
    { [signature |-> "valid", nonce_ok |-> TRUE, error |-> FALSE, output |-> <<1, 0>>,
       output_hash |-> "expected-hash"],
      [signature |-> "valid", nonce_ok |-> TRUE, error |-> FALSE, output |-> <<0, 1>>,
       output_hash |-> "other-hash"],
      [signature |-> "valid", nonce_ok |-> TRUE, error |-> TRUE, output |-> <<>>,
       output_hash |-> "other-hash"],
      [signature |-> "invalid", nonce_ok |-> TRUE, error |-> FALSE, output |-> <<1, 0>>,
       output_hash |-> "expected-hash"],
      [signature |-> "valid", nonce_ok |-> FALSE, error |-> FALSE, output |-> <<1, 0>>,
       output_hash |-> "expected-hash"] }

\* the bodies submit_job accepts for an audit job and verifies
AcceptedBodies ==
    {body \in Bodies : /\ body.signature = "valid" /\ body.nonce_ok /\ ~body.error
                       /\ body.output_hash = "expected-hash"}

HasResult(a) == results[a] # <<>>

LockedAssignments == {t.assignment : t \in stx}

\* WHERE Assignment.id = assignment_id AND Assignment.worker_id = worker.id finds a row
AssignmentOfWorker(w, a) == a \in AssignmentIds /\ assignments[a].worker_id = w

\* submit_job from the signature check to the last guard: the status code of the
\* refusal, 0 when the submission is admitted.
SubmitRefusal_NoReplayGuard(w, a, body) ==
    IF body.signature = "malformed" THEN <<400, "Invalid signature encoding">>
    ELSE IF body.signature # "valid" THEN <<400, "Signature verification failed">>
    ELSE IF ~AssignmentOfWorker(w, a)
         THEN <<404, "Assignment not found">>
    ELSE IF ~body.nonce_ok THEN <<400, "Invalid nonce">>
    ELSE NoResponse

SubmitRefusal(w, a, body) ==
    IF body.signature = "malformed" THEN <<400, "Invalid signature encoding">>
    ELSE IF body.signature # "valid" THEN <<400, "Signature verification failed">>
    ELSE IF ~AssignmentOfWorker(w, a)
         THEN <<404, "Assignment not found">>
    ELSE IF ~body.nonce_ok THEN <<400, "Invalid nonce">>
    ELSE IF HasResult(a)
         THEN <<409, "Assignment already submitted">>
    ELSE IF assignments[a].status \notin {"assigned", "started"}
         THEN <<409, "Assignment is not in a submittable state">>
    ELSE NoResponse

\* ---- verification
Dot(u, v) == SumOver(1..Len(u), [i \in 1..Len(u) |-> u[i] * v[i]])

\* a / b >= c / d for a, c >= 0 and b, d > 0, compared by integer parts and then
\* by the reciprocals of the remainders, so that no product is formed
RECURSIVE FractionAtLeast(_, _, _, _)
FractionAtLeast(a, b, c, d) ==
    IF a \div b # c \div d THEN a \div b > c \div d
    ELSE IF c % d = 0 THEN TRUE
    ELSE IF a % b = 0 THEN FALSE
    ELSE FractionAtLeast(d, c % d, b, a % b)

\* cosine_similarity(...) is not None
SimilarityDefined(u, v) ==
    /\ Len(u) > 0
    /\ Len(u) = Len(v)
    /\ Dot(u, u) > 0
    /\ Dot(v, v) > 0

SimilarityReachesThreshold_Strict(u, v) ==
    /\ SimilarityDefined(u, v)
    /\ Dot(u, v) >= 0
    /\ ~FractionAtLeast(EmbedThresholdNum * EmbedThresholdNum,
                        EmbedThresholdDen * EmbedThresholdDen,
                        Dot(u, v) * Dot(u, v), Dot(u, u) * Dot(v, v))

\* cosine_similarity(...) is not None and >= embed_similarity_threshold
SimilarityReachesThreshold(u, v) ==
    /\ SimilarityDefined(u, v)
    /\ Dot(u, v) >= 0
    /\ FractionAtLeast(Dot(u, v) * Dot(u, v), Dot(u, u) * Dot(v, v),
                       EmbedThresholdNum * EmbedThresholdNum,
                       EmbedThresholdDen * EmbedThresholdDen)

RECURSIVE SqrtBetween(_, _, _)
SqrtBetween(n, lo, hi) ==
    IF lo = hi THEN lo
    ELSE LET mid == (lo + hi + 1) \div 2
         IN  IF mid * mid <= n THEN SqrtBetween(n, mid, hi)
             ELSE SqrtBetween(n, lo, mid - 1)

\* sum(value * value) ** 0.5; the vectors of the request bodies have whole norms
Norm(u) == SqrtBetween(Dot(u, u), 0, Min(Dot(u, u), 46340))

RECURSIVE Gcd(_, _)
Gcd(a, b) == IF b = 0 THEN a ELSE Gcd(b, a % b)

\* verification_score is Numeric(6, 5): scores count hundred-thousandths, NULL is -1
ScoreScale == 100000
NoScore == 0 - 1

\* Decimal(str(similarity)) as the column stores it, for a similarity >= 0
SimilarityScore(u, v) ==
    LET g == Gcd(Dot(u, v), Norm(u) * Norm(v))
    IN  QuantizeHalfEven((Dot(u, v) \div g) * ScoreScale, (Norm(u) * Norm(v)) \div g)

PeerCandidates(a) ==
    {p \in AssignmentsOfJob(assignments[a].job_id) : p # a /\ HasResult(p)}

\* the first assignment of the same job, by id, that has a result; 0 when none
PeerAssignment(a) ==
    IF PeerCandidates(a) = {} THEN 0
    ELSE CHOOSE p \in PeerCandidates(a) : \A q \in PeerCandidates(a) : p <= q

ResultOf(a) == results[a][1]

AdjustWorkerReputation_NoBan(w, delta, rejected) ==
    LET rep == Min(100, Max(0, w.reputation + delta))
        rejected_value == w.rejected_submissions + 1
    IN  IF ~rejected THEN [w EXCEPT !.reputation = rep]
        ELSE [w EXCEPT !.reputation = rep,
                       !.rejected_submissions = rejected_value]

AdjustWorkerReputation_Unclamped(w, delta, rejected) ==
    LET rep == w.reputation + delta
        rejected_value == w.rejected_submissions + 1
    IN  IF ~rejected THEN [w EXCEPT !.reputation = rep]
        ELSE [w EXCEPT !.reputation = rep,
                       !.rejected_submissions = rejected_value,
                       !.status = IF rejected_value >= FraudBanThreshold
                                  THEN "banned" ELSE @]

AdjustWorkerReputation(w, delta, rejected) ==
    LET rep == Min(100, Max(0, w.reputation + delta))
        rejected_value == w.rejected_submissions + 1
    IN  IF ~rejected THEN [w EXCEPT !.reputation = rep]
        ELSE [w EXCEPT !.reputation = rep,
                       !.rejected_submissions = rejected_value,
                       !.status = IF rejected_value >= FraudBanThreshold
                                  THEN "banned" ELSE @]

RECURSIVE ApplyAdjustments(_, _)
ApplyAdjustments(ws, adj) ==
    IF adj = <<>> THEN ws
    ELSE LET h == Head(adj)
         IN  ApplyAdjustments(
                 [ws EXCEPT ![h.worker] = AdjustWorkerReputation(@, h.delta, h.rejected)],
                 Tail(adj))

AdjustmentFor(w, delta, rejected) ==
    IF w = NoWorker THEN <<>>
    ELSE <<[worker |-> w, delta |-> delta, rejected |-> rejected]>>

NeedsThirdAssignment_Always(j) == TRUE

\* _ensure_third_assignment: the job has fewer than three assignments
NeedsThirdAssignment(j) == Cardinality(AssignmentsOfJob(j)) < 3

\* process_submission_verification, on the rows the transaction has read
VerificationPlan(a, body) ==
    LET asg == assignments[a]
        job == jobs[asg.job_id]
        p == PeerAssignment(a)
        none == [verification_status |-> "pending", verification_score |-> NoScore,
                 failed |-> FALSE, peer |-> 0, adjust |-> <<>>, third |-> FALSE]
    IN  IF job.canonical_expected_hash # "NULL"
        THEN IF body.output_hash = job.canonical_expected_hash
             THEN [none EXCEPT !.verification_status = "verified",
                               !.verification_score = ScoreScale,
                               !.adjust = AdjustmentFor(asg.worker_id,
                                              VerifiedReputationDelta, FALSE)]
             ELSE [none EXCEPT !.verification_status = "rejected",
                               !.verification_score = 0,
                               !.failed = TRUE,
                               !.adjust = AdjustmentFor(asg.worker_id,
                                              RejectedReputationDelta, TRUE)]
        ELSE IF p = 0 THEN none
        ELSE IF SimilarityReachesThreshold(ResultOf(p).output, body.output)
             THEN [none EXCEPT !.verification_status = "verified",
                               !.verification_score =
                                   SimilarityScore(ResultOf(p).output, body.output),
                               !.peer = p,
                               !.adjust =
                                   AdjustmentFor(asg.worker_id,
                                                 VerifiedReputationDelta, FALSE)
                                   \o AdjustmentFor(assignments[p].worker_id,
                                                    VerifiedReputationDelta, FALSE)]
             ELSE [none EXCEPT !.verification_status = "disputed",
                               !.peer = p,
                               !.third = NeedsThirdAssignment(asg.job_id)]

\* ---- accounting
\* the job types with an active pricing_rules row
PricedJobTypes == {"inference", "embedding"}

HasActivePricingRule_Any(job_type) == TRUE

HasActivePricingRule(job_type) == job_type \in PricedJobTypes

UnitCostOf(job_type) == IF job_type = "embedding" THEN 3 * UnitCostTokens ELSE UnitCostTokens

\* estimate_payload_units: the payload's compact JSON counted in thousands of
\* characters, rounded up, at least 1
EstimatePayloadUnits(payload_chars) == Max(1, (payload_chars + 999) \div 1000)

HasJobCharge_Never(a) == FALSE

HasJobCharge(a) ==
    \E e \in BagToSet(ledger) : e.assignment_id = a /\ e.entry_type = "job_charge"

WorkerReward_KeepsFee(cost, pool_fee) == cost

WorkerReward(cost, pool_fee) == cost - pool_fee

\* apply_job_verification_accounting: the postings of one assignment, <<>> when a
\* guard skips the accounting
AccountingPostings(a, status, verification_status) ==
    LET asg == assignments[a]
        job == jobs[asg.job_id]
    IN  IF \/ verification_status # "verified"
           \/ asg.worker_id = NoWorker
           \/ job.created_by_user_id = NoUser
           \/ status \in {"failed", "canceled"}
           \/ job.status \in {"failed", "canceled"}
           \/ HasJobCharge(a)
           \/ ~HasActivePricingRule(job.job_type)
        THEN <<>>
        ELSE LET units == EstimatePayloadUnits(job.payload_chars)
                 cost == units * UnitCostOf(job.job_type)
                 pool_fee == QuantizeHalfEven(cost * PoolFeeBps, 10000)
             IN  << [account |-> UserAccount(job.created_by_user_id),
                     amount |-> 0 - cost, entry_type |-> "job_charge"],
                    [account |-> PoolAccount,
                     amount |-> pool_fee, entry_type |-> "pool_fee"],
                    [account |-> UserAccount(OwnerOf(asg.worker_id)),
                     amount |-> WorkerReward(cost, pool_fee),
                     entry_type |-> "worker_reward"] >>

RECURSIVE PostedBalances_FromStoredBalance(_, _)
PostedBalances_FromStoredBalance(bal, postings) ==
    IF postings = <<>> THEN bal
    ELSE PostedBalances_FromStoredBalance(
             [bal EXCEPT ![Head(postings).account] =
                 balance[Head(postings).account] + Head(postings).amount],
             Tail(postings))

\* _create_ledger_entry on the session's account objects, one posting after another
RECURSIVE PostedBalances(_, _)
PostedBalances(bal, postings) ==
    IF postings = <<>> THEN bal
    ELSE PostedBalances([bal EXCEPT ![Head(postings).account] = @ + Head(postings).amount],
                        Tail(postings))

PostedAccounts(postings) == {postings[k].account : k \in 1..Len(postings)}

LedgerRows(postings, j, a, at) ==
    [k \in 1..Len(postings) |->
        [account |-> postings[k].account, job_id |-> j, assignment_id |-> a,
         amount |-> postings[k].amount, entry_type |-> postings[k].entry_type,
         created_at |-> at]]

RECURSIVE AddRows(_, _)
AddRows(bag, rows) ==
    IF rows = <<>> THEN bag
    ELSE AddRows(bag (+) SetToBag({Head(rows)}), Tail(rows))

\* ---- the request
SubmitRefuse_FailsAssignment(w, a, body) ==
    /\ resp = NoResponse
    /\ SubmitRefusal(w, a, body) # NoResponse
    /\ resp' = SubmitRefusal(w, a, body)
    /\ assignments' = [x \in AssignmentIds |->
                          IF x = a THEN [assignments[x] EXCEPT !.status = "failed"]
                          ELSE assignments[x]]
    /\ UNCHANGED <<now, workers, heartbeats, jobs, results, accounts, balance, ledger,
                   dtx, stx>>

SubmitRefuse(w, a, body) ==
    /\ resp = NoResponse
    /\ SubmitRefusal(w, a, body) # NoResponse
    /\ SubmitRefusal(w, a, body)[1] = 409 => a \notin LockedAssignments
    /\ ~body.nonce_ok /\ SubmitRefusal(w, a, body)[1] = 400 => a \notin LockedAssignments
    /\ resp' = SubmitRefusal(w, a, body)
    /\ UNCHANGED <<now, db, dtx, stx>>

\* submit_job from the locking read up to, not including, db.commit()
SubmitBegin(w, a, body) ==
    /\ resp = NoResponse
    /\ OpenTxns < MaxOpenTxns
    /\ a \notin LockedAssignments
    /\ SubmitRefusal(w, a, body) = NoResponse
    /\ LET status == IF body.error THEN "failed" ELSE "completed"
           plan == VerificationPlan(a, body)
           final == IF plan.failed THEN "failed" ELSE status
           adjusted == ApplyAdjustments(workers, plan.adjust)
           touched == {plan.adjust[k].worker : k \in 1..Len(plan.adjust)}
           postings == AccountingPostings(a, final, plan.verification_status)
       IN  stx' = stx \cup
              {[assignment |-> a, body |-> body, status |-> final, finished_at |-> now,
                verification_status |-> plan.verification_status,
                verification_score |-> plan.verification_score,
                peer |-> plan.peer, third |-> plan.third,
                specs |-> [x \in touched |->
                             [reputation |-> adjusted[x].reputation,
                              rejected_submissions |-> adjusted[x].rejected_submissions]],
                banned |-> {x \in touched : adjusted[x].status = "banned"
                                            /\ workers[x].status # "banned"},
                postings |-> postings,
                balances |-> [k \in PostedAccounts(postings) |->
                                PostedBalances(balance, postings)[k]],
                created |-> PostedAccounts(postings) \ accounts]}
    /\ resp' = NoResponse
    /\ UNCHANGED <<now, db, dtx>>

JobsAfterSubmit_Completes(t) ==
    [jobs EXCEPT ![assignments[t.assignment].job_id].status =
                    IF t.status = "failed" THEN "failed" ELSE "completed"]

\* the jobs table after a submission: submit_job, process_submission_verification
\* and apply_job_accounting read the job and write none of its attributes
JobsAfterSubmit(t) == jobs

\* db.commit(): the flush writes the session's pending rows and attribute values
SubmitCommit(t) ==
    /\ resp = NoResponse
    /\ t \in stx
    /\ t.created \cap accounts = {}
    /\ t.third => Len(assignments) < MaxAssignments
    /\ assignments' =
          [assignments EXCEPT ![t.assignment] =
              [@ EXCEPT !.status = t.status, !.finished_at = t.finished_at]]
          \o (IF t.third
              THEN <<NewAssignment(assignments[t.assignment].job_id, NoWorker,
                                   "audit-third", t.finished_at)>>
              ELSE <<>>)
    /\ results' =
          [a \in 1..MaxAssignments |->
              IF a = t.assignment
              THEN Append(results[a],
                          [output |-> t.body.output, error |-> t.body.error,
                           output_hash |-> t.body.output_hash,
                           verification_status |-> t.verification_status,
                           verification_score |-> t.verification_score])
              ELSE IF a = t.peer
              THEN [k \in 1..Len(results[a]) |->
                       IF k = 1
                       THEN [results[a][k] EXCEPT
                                !.verification_status = t.verification_status,
                                !.verification_score =
                                    IF t.verification_status = "verified"
                                    THEN t.verification_score ELSE @]
                       ELSE results[a][k]]
              ELSE results[a]]
    /\ workers' =
          [x \in WorkerIds |->
              IF x \in DOMAIN t.specs
              THEN [status |-> IF x \in t.banned THEN "banned" ELSE workers[x].status,
                    reputation |-> t.specs[x].reputation,
                    rejected_submissions |-> t.specs[x].rejected_submissions]
              ELSE workers[x]]
    /\ accounts' = accounts \cup t.created
    /\ balance' = [k \in AccountKeys |->
                     IF k \in DOMAIN t.balances THEN t.balances[k] ELSE balance[k]]
    /\ ledger' = AddRows(ledger, LedgerRows(t.postings, assignments[t.assignment].job_id,
                                            t.assignment, now))
    /\ jobs' = JobsAfterSubmit(t)
    /\ stx' = stx \ {t}
    /\ resp' = <<200, "">>
    /\ UNCHANGED <<now, heartbeats, dtx>>

SubmitRollback_KeepsResult(t, answer) ==
    /\ resp = NoResponse
    /\ t \in stx
    /\ results' = [results EXCEPT ![t.assignment] =
                      Append(@, [output |-> t.body.output, error |-> t.body.error,
                                 output_hash |-> t.body.output_hash,
                                 verification_status |-> t.verification_status,
                                 verification_score |-> t.verification_score])]
    /\ stx' = stx \ {t}
    /\ resp' = answer
    /\ UNCHANGED <<now, workers, heartbeats, jobs, assignments, accounts, balance,
                   ledger, dtx>>

\* The transaction ends without its writes: db.commit() raised OperationalError
\* (rollback and 409), or an earlier statement raised and the session was closed (500).
SubmitRollback(t, answer) ==
    /\ resp = NoResponse
    /\ t \in stx
    /\ stx' = stx \ {t}
    /\ resp' = answer
    /\ UNCHANGED <<now, db, dtx>>

RollbackAnswers == {<<409, "Concurrent submission conflict">>, <<500, "Internal Server Error">>}

\* ---------------------------------------------------------------- emission
WindowStart == now - TicksPerDay

DayStart == (now \div TicksPerDay) * TicksPerDay

\* the heartbeats _calculate_uptime_ratio reads: those of the window and the last
\* one before it
UptimePoints(w) ==
    LET before == {t \in heartbeats[w] : t < WindowStart}
    IN  {t \in heartbeats[w] : t >= WindowStart /\ t <= now}
        \cup {t \in before : \A u \in before : u <= t}

CoveredTicks(w) ==
    SumOver(UptimePoints(w),
            [t \in UptimePoints(w) |->
                Max(0, Min(t + HeartbeatTimeoutTicks(w), now) - Max(t, WindowStart))])

\* emission_tokens of the provisional payout, 0 when the worker is skipped
ProvisionalAmount(w) ==
    LET covered == Min(CoveredTicks(w), TicksPerDay)
        reputation == Min(100, Max(0, workers[w].reputation))
    IN  QuantizeHalfEven(DailyEmissionBaseTokens * covered * reputation,
                         TicksPerDay * 100)

IsDailyEmission(e) == e.entry_type = "daily_emission"

LedgerSum(S) == SumOver(S, [e \in S |-> e.amount * CopiesIn(e, ledger)])

EmittedToday ==
    LedgerSum({e \in BagToSet(ledger) : IsDailyEmission(e) /\ e.created_at >= DayStart})

RemainingCap == Max(0, DailyEmissionCapTokens - EmittedToday)

FinalAmount(amount, remaining, total) ==
    IF total <= remaining THEN amount
    ELSE QuantizeHalfEven(amount * remaining, total)

RECURSIVE OrderAscending(_)
OrderAscending(S) ==
    IF S = {} THEN <<>>
    ELSE LET x == CHOOSE y \in S : \A z \in S : y <= z
         IN  <<x>> \o OrderAscending(S \ {x})

\* run_daily_emission: the payouts it credits, in the order of the worker rows
DailyEmissionPayouts ==
    IF RemainingCap <= 0 THEN <<>>
    ELSE LET provisional == {w \in WorkerIds : ProvisionalAmount(w) > 0}
             total == SumOver(provisional, [w \in provisional |-> ProvisionalAmount(w)])
             paid == {w \in provisional :
                         FinalAmount(ProvisionalAmount(w), RemainingCap, total) > 0}
             order == OrderAscending(paid)
         IN  [k \in 1..Len(order) |->
                 [account |-> UserAccount(OwnerOf(order[k])),
                  amount |-> FinalAmount(ProvisionalAmount(order[k]), RemainingCap, total),
                  entry_type |-> "daily_emission"]]

\* run_daily_emission followed by db.commit()
RunDailyEmission ==
    LET payouts == DailyEmissionPayouts
    IN  /\ resp = NoResponse
        /\ accounts' = accounts \cup PostedAccounts(payouts)
        /\ balance' = PostedBalances(balance, payouts)
        /\ ledger' = AddRows(ledger, LedgerRows(payouts, 0, 0, now))
        /\ resp' = NoResponse
        /\ UNCHANGED <<now, workers, heartbeats, jobs, assignments, results, dtx, stx>>

\* _daily_emission_loop with the cron time 00:00: one run a day
SchedulerEmission ==
    /\ ~(EmittedToday > 0)
    /\ RunDailyEmission

\* POST /admin/emission/run-now
AdminEmissionRunNow == RunDailyEmission

\* ---- the emission as a transaction
\* the coordinator instances' emission loops and the admin endpoint
EmissionTriggers == {"scheduler-a", "scheduler-b", "admin"}

EmissionFrame == UNCHANGED <<events, calls, granted, request, sched, gw>>

\* run_daily_emission up to, not including, db.commit(): the cap left and the
\* balances are those the transaction read. A loop starts a run only when
\* get_daily_emission_status shows none completed today.
EmissionBegin(by) ==
    LET payouts == DailyEmissionPayouts
    IN  /\ resp = NoResponse
        /\ \A t \in etx : t.by # by
        /\ by # "admin" => ~(EmittedToday > 0)
        /\ payouts # <<>>
        /\ etx' = etx \cup
                     {[by |-> by, at |-> now, payouts |-> payouts,
                       balances |-> [k \in PostedAccounts(payouts) |->
                                       PostedBalances(balance, payouts)[k]],
                       created |-> PostedAccounts(payouts) \ accounts]}
        /\ resp' = NoResponse
        /\ EmissionFrame
        /\ UNCHANGED <<now, db, dtx, stx>>

\* db.commit() of the run: the entries are inserted and the balances written. A run
\* that inserted an account another transaction has committed meanwhile fails on
\* uq_accounts_owner_currency.
EmissionCommit(t) ==
    /\ resp = NoResponse
    /\ t \in etx
    /\ t.created \cap accounts = {}
    /\ accounts' = accounts \cup t.created
    /\ balance' = [k \in AccountKeys |->
                     IF k \in DOMAIN t.balances THEN t.balances[k] ELSE balance[k]]
    /\ ledger' = AddRows(ledger, LedgerRows(t.payouts, 0, 0, t.at))
    /\ etx' = etx \ {t}
    /\ resp' = NoResponse
    /\ EmissionFrame
    /\ UNCHANGED <<now, workers, heartbeats, jobs, assignments, results, dtx, stx>>

\* the run raised: the loop logs it and the session rolls back, run-now answers 500
EmissionRollback(t) ==
    /\ resp = NoResponse
    /\ t \in etx
    /\ etx' = etx \ {t}
    /\ resp' = NoResponse
    /\ EmissionFrame
    /\ UNCHANGED <<now, db, dtx, stx>>

\* ---------------------------------------------------------------- scheduler
\* A tick is half a day: the clock of the emission loop shows 00:00 or 12:00.
HoursPerDay == 24
Hour == ((now % TicksPerDay) * HoursPerDay) \div TicksPerDay
Minute == 0

\* the cron time the scheduled coordinator is configured with, 12:00 UTC
DailyEmissionCronHourUtc == 12
DailyEmissionCronMinuteUtc == 0

ShouldRunTime_Always == TRUE

ShouldRunTime ==
    \/ Hour > DailyEmissionCronHourUtc
    \/ Hour = DailyEmissionCronHourUtc /\ Minute >= DailyEmissionCronMinuteUtc

FrontUnchanged == UNCHANGED <<events, calls, granted, request, gw, etx>>

DispatchLoopIterate_IgnoringStop ==
    /\ sched.dispatch = "loop"
    /\ \/ /\ DispatchBegin
          /\ sched' = [sched EXCEPT !.dispatch = "running"]
       \/ /\ ClaimQueuedJobs(LockedJobs) = <<>>
          /\ sched' = [sched EXCEPT !.dispatch = "waiting"]
          /\ UNCHANGED <<now, db, dtx, stx, resp>>
    /\ FrontUnchanged

\* _dispatch_loop from the test of its while to the return of assign_queued_jobs;
\* with nothing queued the tick assigns nothing and rolls back at once
DispatchLoopIterate ==
    /\ sched.dispatch = "loop"
    /\ ~sched.stop_event
    /\ \/ /\ DispatchBegin
          /\ sched' = [sched EXCEPT !.dispatch = "running"]
       \/ /\ ClaimQueuedJobs(LockedJobs) = <<>>
          /\ sched' = [sched EXCEPT !.dispatch = "waiting"]
          /\ UNCHANGED <<now, db, dtx, stx, resp>>
    /\ FrontUnchanged

\* db.commit() or db.rollback() of the tick (the session also rolls back when the
\* tick raised), then the loop waits on the stop event
DispatchLoopFinish ==
    /\ sched.dispatch = "running"
    /\ \E t \in dtx : DispatchCommit(t) \/ DispatchRollback(t)
    /\ sched' = [sched EXCEPT !.dispatch = "waiting"]
    /\ FrontUnchanged

\* one iteration of _daily_emission_loop; it has no await, so it is one step
EmissionLoopIterate ==
    /\ sched.emission = "loop"
    /\ ~sched.stop_event
    /\ resp = NoResponse
    /\ \/ /\ ShouldRunTime
          /\ sched' = [sched EXCEPT !.emission = "waiting", !.invoked = TRUE,
                                    !.emitted_at = IF DailyEmissionPayouts # <<>>
                                                   THEN Append(@, now) ELSE @]
          /\ SchedulerEmission
       \/ /\ ~ShouldRunTime \/ EmittedToday > 0
          /\ sched' = [sched EXCEPT !.emission = "waiting", !.invoked = FALSE]
          /\ UNCHANGED <<now, db, dtx, stx, resp>>
    /\ FrontUnchanged

\* asyncio.wait_for(stop_event.wait(), timeout=...) returns or times out; either
\* way the loop is back at the test of its while
LoopWake(loop) ==
    /\ sched[loop] = "waiting"
    /\ sched' = [sched EXCEPT ![loop] = "loop"]
    /\ FrontUnchanged
    /\ UNCHANGED <<now, db, dtx, stx, resp>>

\* while not stop_event.is_set() fails: the task ends
LoopExit(loop) ==
    /\ sched[loop] = "loop"
    /\ sched.stop_event
    /\ sched' = [sched EXCEPT ![loop] = "done"]
    /\ FrontUnchanged
    /\ UNCHANGED <<now, db, dtx, stx, resp>>

\* the finally of scheduler_lifespan; it runs on the event loop, hence while no
\* iteration of a loop is running
StopEventSet ==
    /\ sched.lifespan = "serving"
    /\ sched.dispatch # "running"
    /\ sched' = [sched EXCEPT !.stop_event = TRUE, !.lifespan = "gathering"]
    /\ FrontUnchanged
    /\ UNCHANGED <<now, db, dtx, stx, resp>>

\* asyncio.gather(task, emission_task, return_exceptions=True) returns
LifespanGathered ==
    /\ sched.lifespan = "gathering"
    /\ sched.dispatch = "done"
    /\ sched.emission = "done"
    /\ sched' = [sched EXCEPT !.lifespan = "stopped"]
    /\ FrontUnchanged
    /\ UNCHANGED <<now, db, dtx, stx, resp>>

\* ---------------------------------------------------------------- federation
InterpoolFeeAmount == 0

\* the characters a relayed_result entry adds to the job's payload
RelayedResultChars == 200

\* record_interpool_fee_placeholder
InterpoolFeeRow(j) ==
    [account |-> PoolAccount, job_id |-> j, assignment_id |-> 0,
     amount |-> InterpoolFeeAmount, entry_type |-> "interpool_fee", created_at |-> now]

InterpoolEntries ==
    SumOver({e \in BagToSet(ledger) : e.entry_type = "interpool_fee"},
            [e \in BagToSet(ledger) |-> CopiesIn(e, ledger)])

HasAvailableCapacity ==
    \E w \in OnlineWorkers : ActiveCount(w) < MaxConcurrency(w)

FederatedJobKinds == {kind \in JobKinds : kind.created_by_user_id = NoUser}

\* POST /p2p/jobs/forward
P2PForward(kind) ==
    /\ resp = NoResponse
    /\ HasAvailableCapacity
    /\ Len(jobs) < MaxJobs
    /\ InterpoolEntries < MaxInterpoolEntries
    /\ jobs' = Append(jobs, NewJob(kind))
    /\ accounts' = accounts \cup {PoolAccount}
    /\ ledger' = ledger (+) SetToBag({InterpoolFeeRow(Len(jobs) + 1)})
    /\ resp' = NoResponse
    /\ UNCHANGED <<now, workers, heartbeats, assignments, results, balance, dtx, stx>>

\* POST /p2p/results/relay
P2PRelay(j, failed) ==
    /\ resp = NoResponse
    /\ j \in JobIds
    /\ InterpoolEntries < MaxInterpoolEntries
    /\ jobs' = [jobs EXCEPT ![j].status = IF failed THEN "failed" ELSE "completed",
                             ![j].payload_chars = @ + RelayedResultChars]
    /\ accounts' = accounts \cup {PoolAccount}
    /\ ledger' = ledger (+) SetToBag({InterpoolFeeRow(j)})
    /\ resp' = NoResponse
    /\ UNCHANGED <<now, workers, heartbeats, assignments, results, balance, dtx, stx>>

\* the response leaves the coordinator
Respond ==
    /\ resp # NoResponse
    /\ resp' = NoResponse
    /\ UNCHANGED <<now, db, dtx, stx>>

\* the rows a commit adds stay within the assignments the concurrent runs explore
FitsAssignments(t) == Len(assignments) + Len(t.plan) <= MaxConcurrentAssignments

FitsThird(t) == t.third => Len(assignments) < MaxConcurrentAssignments

ClientJobKinds == {kind \in JobKinds : kind.created_by_user_id # NoUser}

Next ==
    \/ UNCHANGED process /\ \E kind \in ClientJobKinds : Len(jobs) < MaxJobs /\ CreateJob(kind)
    \/ UNCHANGED process /\ \E j \in JobIds, w \in Workers :
          /\ Cardinality(AssignmentsOfJob(j)) = 1
          /\ Len(assignments) < MaxConcurrentAssignments
          /\ SeedPeerAssignment(j, w)
    \/ UNCHANGED process /\ \E w \in Workers : Heartbeat(w)
    \/ UNCHANGED process /\ DispatchBegin
    \/ UNCHANGED process /\ \E t \in dtx : FitsAssignments(t) /\ DispatchCommit(t)
    \/ UNCHANGED process /\ \E t \in dtx : DispatchRollback(t)
    \/ UNCHANGED process /\ \E w \in Workers, a \in AssignmentIds, body \in Bodies : SubmitRefuse(w, a, body)
    \/ UNCHANGED process /\ \E w \in Workers, a \in AssignmentIds, body \in Bodies : SubmitBegin(w, a, body)
    \/ UNCHANGED process /\ \E t \in stx : FitsThird(t) /\ SubmitCommit(t)
    \/ UNCHANGED process /\ \E t \in stx, answer \in RollbackAnswers : SubmitRollback(t, answer)
    \/ UNCHANGED process /\ Respond

Spec == Init /\ [][Next]_vars

\* Every operation of the coordinator with the clock running, one transaction at a
\* time: a transaction that has begun ends before the next operation starts.
AuditJobKinds == {kind \in JobKinds : kind.canonical_expected_hash # "NULL"}

Quiet == OpenTxns = 0

SerialNext ==
    \/ UNCHANGED process /\ Quiet /\ now < MaxSerialTime /\ AdvanceTime
    \/ UNCHANGED process /\ \E kind \in AuditJobKinds : Quiet /\ Len(jobs) < MaxSerialJobs /\ CreateJob(kind)
    \/ UNCHANGED process /\ \E kind \in FederatedJobKinds :
          Quiet /\ Len(jobs) < MaxSerialJobs /\ P2PForward(kind)
    \/ UNCHANGED process /\ \E j \in JobIds, failed \in BOOLEAN : Quiet /\ P2PRelay(j, failed)
    \/ UNCHANGED process /\ \E w \in Workers : Quiet /\ Heartbeat(w)
    \/ UNCHANGED process /\ Quiet /\ DispatchBegin
    \/ UNCHANGED process /\ \E t \in dtx : FitsAssignments(t) /\ DispatchCommit(t)
    \/ UNCHANGED process /\ \E t \in dtx : DispatchRollback(t)
    \/ UNCHANGED process /\ \E w \in Workers, a \in AssignmentIds, body \in Bodies :
          Quiet /\ SubmitRefuse(w, a, body)
    \/ UNCHANGED process /\ \E w \in Workers, a \in AssignmentIds, body \in Bodies :
          Quiet /\ SubmitBegin(w, a, body)
    \/ UNCHANGED process /\ \E t \in stx : FitsThird(t) /\ SubmitCommit(t)
    \/ UNCHANGED process /\ \E t \in stx, answer \in RollbackAnswers : SubmitRollback(t, answer)
    \/ UNCHANGED process /\ Quiet /\ SchedulerEmission
    \/ UNCHANGED process /\ Quiet /\ AdminEmissionRunNow
    \/ UNCHANGED process /\ Respond

SpecSerial == Init /\ [][SerialNext]_vars

\* The settlement of single jobs, one operation at a time: jobs of every kind, one of
\* a type without pricing rule included, are dispatched, relayed and submitted.
UnpricedJobKinds ==
    { [created_by_user_id |-> ClientUser, canonical_expected_hash |-> "expected-hash",
       job_type |-> "fine_tuning", priority |-> 0, price_multiplier |-> 1,
       payload_chars |-> 1001] }

\* the correctly signed bodies, one reporting an error along with its output among them
AccountingBodies ==
    {body \in Bodies : body.signature = "valid" /\ body.nonce_ok}
    \cup { [signature |-> "valid", nonce_ok |-> TRUE, error |-> TRUE, output |-> <<1, 0>>,
            output_hash |-> "expected-hash"] }

AccountingNext ==
    \/ UNCHANGED process /\ \E kind \in JobKinds \cup UnpricedJobKinds :
          Len(jobs) < MaxAccountingJobs /\ CreateJob(kind)
    \/ UNCHANGED process /\ \E j \in JobIds, w \in Workers :
          /\ Quiet
          /\ Cardinality(AssignmentsOfJob(j)) = 1
          /\ SeedPeerAssignment(j, w)
    \/ UNCHANGED process /\ \E j \in JobIds, failed \in BOOLEAN : Quiet /\ P2PRelay(j, failed)
    \/ UNCHANGED process /\ \E w \in Workers : Quiet /\ Heartbeat(w)
    \/ UNCHANGED process /\ Quiet /\ DispatchBegin
    \/ UNCHANGED process /\ \E t \in dtx : FitsAssignments(t) /\ DispatchCommit(t)
    \/ UNCHANGED process /\ \E t \in dtx : DispatchRollback(t)
    \/ UNCHANGED process /\ \E w \in Workers, a \in AssignmentIds, body \in AccountingBodies :
          Quiet /\ SubmitRefuse(w, a, body)
    \/ UNCHANGED process /\ \E w \in Workers, a \in AssignmentIds, body \in AccountingBodies :
          Quiet /\ SubmitBegin(w, a, body)
    \/ UNCHANGED process /\ \E t \in stx : FitsThird(t) /\ SubmitCommit(t)
    \/ UNCHANGED process /\ \E t \in stx, answer \in RollbackAnswers : SubmitRollback(t, answer)
    \/ UNCHANGED process /\ Respond

SpecAccounting == Init /\ [][AccountingNext]_vars

\* The verification of submissions, one operation at a time: jobs with up to three
\* worker-bound assignments, and embeddings whose similarity lies above, exactly at
\* and below the threshold: <<1,0,0,0,0>> has cosine 0.985 with <<197,34,5,3,1>>
\* and 0.98 with <<196,36,12,12,0>>, which have 0.9983 with each other.
VerifyBodies ==
    { [signature |-> "valid", nonce_ok |-> TRUE, error |-> FALSE,
       output |-> <<1, 0, 0, 0, 0>>, output_hash |-> "expected-hash"],
      [signature |-> "valid", nonce_ok |-> TRUE, error |-> FALSE,
       output |-> <<197, 34, 5, 3, 1>>, output_hash |-> "other-hash"],
      [signature |-> "valid", nonce_ok |-> TRUE, error |-> FALSE,
       output |-> <<196, 36, 12, 12, 0>>, output_hash |-> "other-hash"],
      [signature |-> "valid", nonce_ok |-> TRUE, error |-> TRUE,
       output |-> <<>>, output_hash |-> "other-hash"] }

CrossVerifiedJobKinds == {kind \in ClientJobKinds : kind.canonical_expected_hash = "NULL"}

VerifyNext ==
    \/ UNCHANGED process /\ \E kind \in CrossVerifiedJobKinds :
          Quiet /\ Len(jobs) < MaxVerifyJobs /\ CreateJob(kind)
    \/ UNCHANGED process /\ \E j \in JobIds, w \in Workers : Quiet /\ SeedPeerAssignment(j, w)
    \/ UNCHANGED process /\ \E w \in Workers : Quiet /\ Heartbeat(w)
    \/ UNCHANGED process /\ Quiet /\ DispatchBegin
    \/ UNCHANGED process /\ \E t \in dtx : DispatchCommit(t)
    \/ UNCHANGED process /\ \E t \in dtx : DispatchRollback(t)
    \/ UNCHANGED process /\ \E w \in Workers, a \in AssignmentIds, body \in VerifyBodies :
          Quiet /\ SubmitRefuse(w, a, body)
    \/ UNCHANGED process /\ \E w \in Workers, a \in AssignmentIds, body \in VerifyBodies :
          Quiet /\ SubmitBegin(w, a, body)
    \/ UNCHANGED process /\ \E t \in stx : SubmitCommit(t)
    \/ UNCHANGED process /\ \E t \in stx, answer \in RollbackAnswers : SubmitRollback(t, answer)
    \/ UNCHANGED process /\ Respond

SpecVerify == Init /\ [][VerifyNext]_vars

\* _dispatch_loop wakes every two seconds for as long as the coordinator runs: a
\* tick that can begin begins, and a tick that has begun commits or rolls back.
DispatcherKeepsTicking ==
    /\ WF_vars(UNCHANGED process /\ Quiet /\ DispatchBegin)
    /\ WF_vars(UNCHANGED process /\ \E t \in dtx : DispatchCommit(t))
    /\ WF_vars(UNCHANGED process /\ \E t \in dtx : t.plan = <<>> /\ DispatchRollback(t))

SpecVerifyFair == SpecVerify /\ DispatcherKeepsTicking

\* The audit of workers by canonical jobs, one operation at a time.
AuditNext ==
    \/ UNCHANGED process /\ \E kind \in AuditJobKinds : Quiet /\ Len(jobs) < MaxJobs /\ CreateJob(kind)
    \/ UNCHANGED process /\ \E w \in Workers : Quiet /\ Heartbeat(w)
    \/ UNCHANGED process /\ Quiet /\ DispatchBegin
    \/ UNCHANGED process /\ \E t \in dtx : DispatchCommit(t)
    \/ UNCHANGED process /\ \E t \in dtx : DispatchRollback(t)
    \/ UNCHANGED process /\ \E w \in Workers, a \in AssignmentIds, body \in Bodies :
          Quiet /\ SubmitRefuse(w, a, body)
    \/ UNCHANGED process /\ \E w \in Workers, a \in AssignmentIds, body \in Bodies :
          Quiet /\ SubmitBegin(w, a, body)
    \/ UNCHANGED process /\ \E t \in stx : SubmitCommit(t)
    \/ UNCHANGED process /\ \E t \in stx, answer \in RollbackAnswers : SubmitRollback(t, answer)
    \/ UNCHANGED process /\ Respond

SpecAudit == Init /\ [][AuditNext]_vars

\* The dispatcher alone over the whole fleet: workers with and without settings,
\* accepting or not, cheap and dear, and jobs paying the default price or twice it.
DispatchJobKinds ==
    { [created_by_user_id |-> ClientUser, canonical_expected_hash |-> "NULL",
       job_type |-> "embedding", priority |-> 5, price_multiplier |-> 1,
       payload_chars |-> 1000],
      [created_by_user_id |-> ClientUser, canonical_expected_hash |-> "NULL",
       job_type |-> "inference", priority |-> 0, price_multiplier |-> 2,
       payload_chars |-> 1000] }

DispatchInit == InitFor(DispatchWorkers)

DispatchOnlyNext ==
    \/ UNCHANGED process /\ \E kind \in DispatchJobKinds : Len(jobs) < MaxJobs /\ CreateJob(kind)
    \/ UNCHANGED process /\ \E w \in DispatchWorkers : Heartbeat(w)
    \/ UNCHANGED process /\ DispatchBegin
    \/ UNCHANGED process /\ \E t \in dtx : DispatchCommit(t)
    \/ UNCHANGED process /\ \E t \in dtx : DispatchRollback(t)

SpecDispatch == DispatchInit /\ [][DispatchOnlyNext]_vars

\* A backlog: one job paying twice the default price is created first, jobs of higher
\* priority paying the default price pile up behind it, and the only worker that
\* sends heartbeats is worker 3, which asks twice the default price.
BacklogNext ==
    \/ UNCHANGED process /\ \E kind \in DispatchJobKinds :
          /\ Quiet
          /\ Len(jobs) < MaxBacklogJobs
          /\ kind.price_multiplier = 2 <=> jobs = <<>>
          /\ CreateJob(kind)
    \/ UNCHANGED process /\ Quiet /\ Heartbeat(3)
    \/ UNCHANGED process /\ Quiet /\ DispatchBegin
    \/ UNCHANGED process /\ \E t \in dtx : DispatchCommit(t)
    \/ UNCHANGED process /\ \E t \in dtx : DispatchRollback(t)

SpecBacklog == DispatchInit /\ [][BacklogNext]_vars

\* The verifier's reputation update alone, applied again and again to workers
\* registered with any reputation in their specs, values outside [0, 1] included.
RegisteredReputations == {0 - 10, 0, 3, 50, 97, 100, 250}

ReputationInit ==
    /\ now = 0
    /\ workers \in [Workers -> [status : {"offline"}, reputation : RegisteredReputations,
                                rejected_submissions : {0}]]
    /\ heartbeats = [w \in Workers |-> {}]
    /\ jobs = <<>>
    /\ assignments = <<>>
    /\ results = [a \in 1..MaxAssignments |-> <<>>]
    /\ accounts = {}
    /\ balance = [k \in AccountKeys |-> 0]
    /\ ledger = EmptyBag
    /\ dtx = {}
    /\ stx = {}
    /\ resp = NoResponse
    /\ ProcessInit(Workers)

\* _adjust_worker_reputation for a verified or a rejected result of worker w
VerifierAdjusts(w, rejected) ==
    /\ rejected => workers[w].rejected_submissions < MaxRejections
    /\ workers' = [workers EXCEPT ![w] =
                      AdjustWorkerReputation(@, IF rejected THEN RejectedReputationDelta
                                                ELSE VerifiedReputationDelta, rejected)]
    /\ UNCHANGED <<now, heartbeats, jobs, assignments, results, accounts, balance,
                   ledger, dtx, stx, resp, process>>

ReputationNext == \E w \in Workers, rejected \in BOOLEAN : VerifierAdjusts(w, rejected)

SpecReputation == ReputationInit /\ [][ReputationNext]_vars

\* The emission runs alone, over whole days of heartbeats.
EmissionNext ==
    \/ UNCHANGED process /\ AdvanceTime
    \/ UNCHANGED process /\ \E w \in Workers : Heartbeat(w)
    \/ UNCHANGED process /\ SchedulerEmission
    \/ UNCHANGED process /\ AdminEmissionRunNow

SpecEmission == Init /\ [][EmissionNext]_vars

\* ------------------------------------------------ the requests of worker owners
\* Workers 2 and 3 belong to users 2 and 3; worker 3 registered without a public
\* key.
FrontWorkers == {2, 3}
WorkerOwners == {OwnerOf(w) : w \in FrontWorkers}

HasPublicKey(w) == w # 3

SubmitRateLimitPerMinute == 2
WindowTicks == 1
NoTime == 0 - 1

Owns_Anyone(u, w) == w \in WorkerIds

\* _get_owned_worker finds a row: worker w exists and user u owns it
Owns(u, w) == w \in WorkerIds /\ OwnerOf(w) = u

Asked(kind, u, w) == [kind |-> kind, user |-> u, worker |-> w]

WorkerNotFound == <<404, "Worker not found">>

\* POST /workers/heartbeat by user u naming worker w
HeartbeatRequest(u, w) ==
    /\ IF Owns(u, w) THEN Heartbeat(w)
       ELSE /\ resp = NoResponse
            /\ resp' = WorkerNotFound
            /\ UNCHANGED <<now, db, dtx, stx>>
    /\ request' = Asked("heartbeat", u, w)
    /\ UNCHANGED <<events, calls, granted, sched, gw, etx>>

Polled_AnyStatus(w) == {a \in AssignmentIds : assignments[a].worker_id = w}

\* WHERE worker_id = w AND status = assigned
Polled(w) ==
    {a \in AssignmentIds : assignments[a].worker_id = w
                              /\ assignments[a].status = "assigned"}

\* ORDER BY assigned_at ASC, first row: the order of rows with equal assigned_at is
\* the database's choice
PollCandidates(w) ==
    {a \in Polled(w) :
        \A b \in Polled(w) : assignments[a].assigned_at <= assignments[b].assigned_at}

PollAnswers(u, w) ==
    IF ~Owns(u, w) THEN {WorkerNotFound}
    ELSE IF PollCandidates(w) = {} THEN {<<404, "No assignment available">>}
    ELSE {<<200, ToString(a)>> : a \in PollCandidates(w)}

\* poll_job by user u naming worker w
PollJob(u, w) ==
    /\ resp = NoResponse
    /\ resp' \in PollAnswers(u, w)
    /\ request' = Asked("poll", u, w)
    /\ UNCHANGED <<now, db, dtx, stx, events, calls, granted, sched, gw, etx>>

\* submit_job up to the rate limiter: get_current_user and _get_owned_worker have
\* each read the database once
SubmitGetOwnedWorker(u, w, a, body) ==
    /\ resp = NoResponse
    /\ IF Owns(u, w)
       THEN /\ calls' = calls \cup
                    {[user |-> u, worker |-> w, assignment |-> a, body |-> body,
                      pc |-> "allow", at |-> NoTime, db_reads |-> 2]}
            /\ UNCHANGED <<resp, request>>
       ELSE /\ resp' = WorkerNotFound
            /\ request' = Asked("submit", u, w)
            /\ UNCHANGED calls
    /\ UNCHANGED <<now, db, dtx, stx, events, granted, sched, gw, etx>>

\* SlidingWindowRateLimiter.allow: now = time.monotonic(), before the lock is taken
AllowReadClock(r) ==
    /\ resp = NoResponse
    /\ r \in calls
    /\ r.pc = "allow"
    /\ calls' = (calls \ {r}) \cup {[r EXCEPT !.pc = "lock", !.at = now]}
    /\ UNCHANGED <<now, db, dtx, stx, resp, events, granted, request, sched, gw, etx>>

\* while bucket and bucket[0] < cutoff: bucket.popleft()
RECURSIVE Pruned(_, _)
Pruned(bucket, cutoff) ==
    IF bucket # <<>> /\ Head(bucket) < cutoff THEN Pruned(Tail(bucket), cutoff)
    ELSE bucket

\* SlidingWindowRateLimiter.allow under its lock, and the 429 of submit_job
AllowUnderLock(r) ==
    /\ resp = NoResponse
    /\ r \in calls
    /\ r.pc = "lock"
    /\ LET bucket == Pruned(events[r.worker], r.at - WindowTicks)
       IN  IF Len(bucket) >= SubmitRateLimitPerMinute
           THEN /\ events' = [events EXCEPT ![r.worker] = bucket]
                /\ calls' = calls \ {r}
                /\ resp' = <<429, "Submit rate limit exceeded">>
                /\ request' = Asked("submit", r.user, r.worker)
                /\ UNCHANGED granted
           ELSE /\ events' = [events EXCEPT ![r.worker] = Append(bucket, r.at)]
                /\ calls' = (calls \ {r}) \cup {[r EXCEPT !.pc = "admitted"]}
                /\ granted' = [granted EXCEPT ![r.worker] =
                                  Append(@, [at |-> r.at, returned |-> now])]
                /\ UNCHANGED <<resp, request>>
    /\ UNCHANGED <<now, db, dtx, stx, sched, gw, etx>>

\* submit_job after the rate limiter: the public key, then the signature check, the
\* locking read and the guards, and for an admitted submission the transaction
SubmitProceed(r) ==
    /\ r \in calls
    /\ r.pc = "admitted"
    /\ IF ~HasPublicKey(r.worker)
       THEN /\ resp = NoResponse
            /\ resp' = <<400, "Worker public key is not configured">>
            /\ UNCHANGED <<now, db, dtx, stx>>
       ELSE \/ SubmitRefuse(r.worker, r.assignment, r.body)
            \/ SubmitBegin(r.worker, r.assignment, r.body)
    /\ calls' = calls \ {r}
    /\ request' = Asked("submit", r.user, r.worker)
    /\ UNCHANGED <<events, granted, sched, gw, etx>>

\* The rate limiter under concurrent submit requests while the clock runs; no
\* assignment exists, so every admitted request ends at the assignment lookup.
LimiterBodies == {body \in Bodies : body.signature = "valid" /\ body.nonce_ok /\ ~body.error
                                      /\ body.output_hash = "expected-hash"}

TotalGranted == SumOver(WorkerIds, [k \in WorkerIds |-> Len(granted[k])])

LimiterNext ==
    \/ UNCHANGED process /\ AdvanceTime
    \/ \E u \in {OwnerOf(w) : w \in Workers}, w \in Workers, body \in LimiterBodies :
          /\ Cardinality(calls) < MaxCalls
          /\ Cardinality(calls) + TotalGranted < MaxGranted
          /\ SubmitGetOwnedWorker(u, w, 1, body)
    \/ \E r \in calls : AllowReadClock(r)
    \/ \E r \in calls : AllowUnderLock(r)
    \/ \E r \in calls : SubmitProceed(r)
    \/ UNCHANGED process /\ Respond

FrontInit == InitFor(FrontWorkers)

SpecLimiter == Init /\ [][LimiterNext]_vars

\* Heartbeats, polls and submissions of every user for every worker, one request at
\* a time, on audit jobs the dispatcher hands out.
RequestBodies ==
    {body \in Bodies : ~body.error /\ body.output_hash = "expected-hash"}
    \cup { [signature |-> "malformed", nonce_ok |-> TRUE, error |-> FALSE,
                    output |-> <<1, 0>>, output_hash |-> "expected-hash"] }

Idle == Quiet /\ calls = {}

RequestsNext ==
    \/ UNCHANGED process /\ \E kind \in AuditJobKinds :
          Idle /\ Len(jobs) < MaxJobs /\ CreateJob(kind)
    \/ \E u \in WorkerOwners, w \in FrontWorkers : Idle /\ HeartbeatRequest(u, w)
    \/ UNCHANGED process /\ Idle /\ DispatchBegin
    \/ UNCHANGED process /\ \E t \in dtx : FitsAssignments(t) /\ DispatchCommit(t)
    \/ UNCHANGED process /\ \E t \in dtx : DispatchRollback(t)
    \/ \E u \in WorkerOwners, w \in FrontWorkers : Idle /\ PollJob(u, w)
    \/ \E u \in WorkerOwners, w \in FrontWorkers, a \in 1..MaxJobs,
           body \in RequestBodies : Idle /\ SubmitGetOwnedWorker(u, w, a, body)
    \/ \E r \in calls : AllowReadClock(r)
    \/ \E r \in calls : AllowUnderLock(r)
    \/ \E r \in calls : SubmitProceed(r)
    \/ UNCHANGED process /\ \E t \in stx : SubmitCommit(t)
    \/ UNCHANGED process /\ \E t \in stx, answer \in RollbackAnswers : SubmitRollback(t, answer)
    \/ UNCHANGED process /\ Respond

SpecRequests == FrontInit /\ [][RequestsNext]_vars

\* The same requests while the clock runs and emission runs are asked for.
LifecycleNext ==
    \/ UNCHANGED process /\ \E kind \in AuditJobKinds :
          Idle /\ Len(jobs) < MaxJobs /\ CreateJob(kind)
    \/ \E u \in WorkerOwners, w \in FrontWorkers : Idle /\ HeartbeatRequest(u, w)
    \/ UNCHANGED process /\ Idle /\ DispatchBegin
    \/ UNCHANGED process /\ \E t \in dtx : FitsAssignments(t) /\ DispatchCommit(t)
    \/ UNCHANGED process /\ \E t \in dtx : DispatchRollback(t)
    \/ \E u \in WorkerOwners, w \in FrontWorkers : Idle /\ PollJob(u, w)
    \/ \E u \in WorkerOwners, w \in FrontWorkers, a \in 1..MaxJobs,
           body \in AcceptedBodies :
          Idle /\ a \in AssignmentIds /\ SubmitGetOwnedWorker(u, w, a, body)
    \/ \E r \in calls : AllowReadClock(r)
    \/ \E r \in calls : AllowUnderLock(r)
    \/ \E r \in calls : SubmitProceed(r)
    \/ UNCHANGED process /\ \E t \in stx : SubmitCommit(t)
    \/ UNCHANGED process /\ \E t \in stx, answer \in RollbackAnswers : SubmitRollback(t, answer)
    \/ UNCHANGED process /\ Respond
    \/ UNCHANGED process /\ Idle /\ now < MaxSerialTime /\ AdvanceTime
    \/ UNCHANGED process /\ Idle /\ AdminEmissionRunNow

SpecLifecycle == FrontInit /\ [][LifecycleNext]_vars

\* ------------------------------------------------ the coordinator's two loops
Loops == {"dispatch", "emission"}

SchedulerNext ==
    \/ UNCHANGED process /\ AdvanceTime
    \/ UNCHANGED process /\ Heartbeat(1)
    \/ UNCHANGED process /\ \E kind \in DispatchJobKinds :
          Len(jobs) < MaxSchedulerJobs /\ kind.price_multiplier = 1 /\ CreateJob(kind)
    \/ UNCHANGED process /\ AdminEmissionRunNow
    \/ DispatchLoopIterate
    \/ DispatchLoopFinish
    \/ EmissionLoopIterate
    \/ \E loop \in Loops : LoopWake(loop)
    \/ \E loop \in Loops : LoopExit(loop)
    \/ StopEventSet
    \/ LifespanGathered

SpecScheduler == Init /\ [][SchedulerNext]_vars

\* the event loop runs every task that is ready
TasksRun ==
    /\ WF_vars(DispatchLoopFinish \/ LoopWake("dispatch") \/ LoopExit("dispatch"))
    /\ WF_vars(LoopWake("emission") \/ LoopExit("emission"))
    /\ WF_vars(LifespanGathered)

SpecSchedulerFair == SpecScheduler /\ TasksRun

\* ------------------------------------------------------ internal job creation
\* The requests of /internal/jobs/create: the length of the compact JSON text of
\* their payload, the keys among those the handler sets that the payload already
\* holds, and the length of request_id (0: none).
PayloadSizes == 960..MaxPayloadChars

InternalJobCreateRequests ==
    [payload_chars : PayloadSizes,
     keys : SUBSET {"request_id", "price_multiplier"},
     request_id_chars : {0, 2}]

\* ,"request_id":"..." as json.dumps(..., separators=(",", ":")) writes it
RequestIdEntryChars(n) == 16 + n

\* ,"price_multiplier":1.0
PriceMultiplierEntryChars == 23

\* job_payload.setdefault("request_id", payload.request_id) when a request_id came
WithRequestId(req) ==
    IF req.request_id_chars > 0 /\ "request_id" \notin req.keys
    THEN req.payload_chars + RequestIdEntryChars(req.request_id_chars)
    ELSE req.payload_chars

\* job_payload.setdefault("price_multiplier", float(price_multiplier))
WithPriceMultiplier(req, chars) ==
    IF "price_multiplier" \notin req.keys THEN chars + PriceMultiplierEntryChars
    ELSE chars

\* create_internal_job with create_queued_job: the estimate is taken from the
\* payload it was handed, the row stores the payload with price_multiplier set
CreateInternalJob(req) ==
    /\ resp = NoResponse
    /\ jobs' = Append(jobs,
                      [status |-> "queued", created_by_user_id |-> NoUser,
                       canonical_expected_hash |-> "NULL", job_type |-> "inference",
                       priority |-> 0, price_multiplier |-> 1,
                       payload_chars |-> WithPriceMultiplier(req, WithRequestId(req))])
    /\ resp' = <<201, ToString(EstimatePayloadUnits(WithRequestId(req)))>>
    /\ UNCHANGED <<now, workers, heartbeats, assignments, results, accounts, balance,
                   ledger, dtx, stx>>

CreateNext ==
    \/ UNCHANGED process /\ \E req \in InternalJobCreateRequests :
          Len(jobs) < MaxJobs /\ CreateInternalJob(req)
    \/ UNCHANGED process /\ Respond

SpecCreate == Init /\ [][CreateNext]_vars

\* ------------------------------------------- emission runs that overlap
\* Worker 2 alone sends heartbeats, so that a run pays one account and no rounding
\* of several payouts is involved.
ConcurrentEmissionNext ==
    \/ UNCHANGED process /\ etx = {} /\ AdvanceTime
    \/ UNCHANGED process /\ etx = {} /\ Heartbeat(2)
    \/ \E by \in EmissionTriggers : EmissionBegin(by)
    \/ \E t \in etx : EmissionCommit(t)
    \/ \E t \in etx : EmissionRollback(t)

SpecEmissionConcurrent == Init /\ [][ConcurrentEmissionNext]_vars

\* ------------------------------- submissions and emission runs that overlap
\* Audit jobs of the client, answered with the expected hash by worker 2, whose
\* owner is that client: charges, rewards and emissions meet on one account.
NoTxnOpen == Quiet /\ etx = {}

PostingsNext ==
    \/ UNCHANGED process /\ NoTxnOpen /\ AdvanceTime
    \/ UNCHANGED process /\ \E kind \in AuditJobKinds :
          NoTxnOpen /\ Len(jobs) < MaxJobs /\ CreateJob(kind)
    \/ UNCHANGED process /\ NoTxnOpen /\ Heartbeat(2)
    \/ UNCHANGED process /\ NoTxnOpen /\ DispatchBegin
    \/ UNCHANGED process /\ \E t \in dtx : DispatchCommit(t)
    \/ UNCHANGED process /\ \E t \in dtx : t.plan = <<>> /\ DispatchRollback(t)
    \/ UNCHANGED process /\ \E a \in AssignmentIds, body \in AcceptedBodies :
          dtx = {} /\ SubmitBegin(2, a, body)
    \/ UNCHANGED process /\ \E t \in stx : SubmitCommit(t)
    \/ UNCHANGED process /\ \E t \in stx, answer \in RollbackAnswers : SubmitRollback(t, answer)
    \/ UNCHANGED process /\ Respond
    \/ dtx = {} /\ EmissionBegin("admin")
    \/ \E t \in etx : EmissionCommit(t)
    \/ \E t \in etx : EmissionRollback(t)

SpecPostings == Init /\ [][PostingsNext]_vars

\* ------------------------------------------------------------- the gateway
\* POLL_TIMEOUT_SECONDS, in ticks of the clock
PollTimeoutTicks == 1

GatewayFrame ==
    UNCHANGED <<now, db, dtx, stx, resp, events, calls, granted, request, sched, etx>>

\* what the coordinator answers to the creation, to a poll and to the cancel
CreateReplies == {"created", "refused", "error"}
PollReplies == {"queued", "running", "verified", "failed", "error"}
CancelReplies == {"accepted", "refused", "raised"}

\* _create_job, and the first line of _wait_for_verification when it succeeded
GatewayCreateJob(reply) ==
    /\ gw.pc = "idle"
    /\ gw' = IF reply = "created"
             THEN [gw EXCEPT !.pc = "test", !.timeout_at = now + PollTimeoutTicks]
             ELSE [gw EXCEPT !.pc = "done",
                             !.answer = IF reply = "refused" THEN 402 ELSE 500]
    /\ GatewayFrame

\* while time.monotonic() < timeout_at
GatewayTest ==
    /\ gw.pc = "test"
    /\ now < gw.timeout_at => gw.polls < MaxPolls
    /\ gw' = [gw EXCEPT !.pc = IF now < gw.timeout_at THEN "polling" ELSE "cancelling"]
    /\ GatewayFrame

\* the GET of the job returns: raise_for_status() ends the request, a verified job
\* is returned, anything else is slept on
GatewayPollReturns(reply) ==
    /\ gw.pc = "polling"
    /\ gw' = IF reply = "error"
             THEN [gw EXCEPT !.pc = "done", !.polls = @ + 1, !.reported = reply,
                             !.answer = 500]
             ELSE IF reply = "verified"
             THEN [gw EXCEPT !.pc = "done", !.polls = @ + 1, !.reported = reply,
                             !.verified_at = now, !.answer = 200]
             ELSE [gw EXCEPT !.pc = "sleeping", !.polls = @ + 1, !.reported = reply]
    /\ GatewayFrame

\* asyncio.sleep(poll_interval_seconds) returns
GatewaySleepEnds ==
    /\ gw.pc = "sleeping"
    /\ gw' = [gw EXCEPT !.pc = "test"]
    /\ GatewayFrame

GatewayCancelReturns_Propagates(reply) ==
    /\ gw.pc = "cancelling"
    /\ gw' = [gw EXCEPT !.pc = "done", !.cancel = reply,
                        !.answer = IF reply = "raised" THEN 500 ELSE 503]
    /\ GatewayFrame

\* _cancel_job returns, whatever the POST did, and the 503 is raised
GatewayCancelReturns(reply) ==
    /\ gw.pc = "cancelling"
    /\ gw' = [gw EXCEPT !.pc = "done", !.cancel = reply, !.answer = 503]
    /\ GatewayFrame

\* the answer is sent; the gateway takes the next request
GatewayRespond ==
    /\ gw.pc = "done"
    /\ gw' = NoGatewayRequest
    /\ GatewayFrame

GatewayNext ==
    \/ UNCHANGED process /\ AdvanceTime
    \/ \E reply \in CreateReplies : GatewayCreateJob(reply)
    \/ GatewayTest
    \/ \E reply \in PollReplies : GatewayPollReturns(reply)
    \/ GatewaySleepEnds
    \/ \E reply \in CancelReplies : GatewayCancelReturns(reply)
    \/ GatewayRespond

SpecGateway == Init /\ [][GatewayNext]_vars

\* ================================================================ claims
AssignmentRows == 1..MaxAssignments

DispatcherAssignmentsOf(j) ==
    {a \in AssignmentIds : assignments[a].job_id = j /\ assignments[a].nonce_prefix = "job"}

LedgerOfAssignment(a) == {e \in BagToSet(ledger) : e.assignment_id = a}

LedgerOfAccount(k) == {e \in BagToSet(ledger) : e.account = k}

TerminalStatuses == {"completed", "failed", "canceled"}

\* C1: however submit_job calls interleave, replays and concurrent submissions
\* included, no assignment ever has more than one results row.
C1_AtMostOneResult == \A a \in AssignmentRows : Len(results[a]) <= 1

\* a submission is open on one assignment of a job while another assignment of the
\* same job already has its result and is finished
C1_Witness ==
    \E t \in stx : \E a \in AssignmentIds :
        /\ a # t.assignment
        /\ assignments[a].job_id = assignments[t.assignment].job_id
        /\ Len(results[a]) = 1
        /\ assignments[a].status \in TerminalStatuses

\* C2: the ledger entries carrying one assignment id sum to zero: they are the
\* job_charge, the pool_fee and the worker_reward together, or there are none.
C2_PostingsBalance ==
    \A a \in AssignmentRows :
        /\ LedgerSum(LedgerOfAssignment(a)) = 0
        /\ \/ LedgerOfAssignment(a) = {}
           \/ {e.entry_type : e \in LedgerOfAssignment(a)}
                 = {"job_charge", "pool_fee", "worker_reward"}

\* a cross-verified assignment has been accounted with a fee that was rounded
C2_Witness ==
    \E e \in BagToSet(ledger) :
        /\ e.entry_type = "pool_fee"
        /\ e.amount > 0
        /\ jobs[e.job_id].canonical_expected_hash = "NULL"
        /\ 10000 * e.amount # EstimatePayloadUnits(jobs[e.job_id].payload_chars)
                                 * UnitCostOf(jobs[e.job_id].job_type) * PoolFeeBps

\* C3: after any sequence of committed operations every account's balance is the sum
\* of the amounts of its ledger entries; an account without a row has neither.
C3_BalanceIsLedgerSum ==
    /\ \A k \in AccountKeys : balance[k] = LedgerSum(LedgerOfAccount(k))
    /\ \A e \in BagToSet(ledger) : e.account \in accounts
    /\ \A k \in AccountKeys \ accounts : balance[k] = 0

\* one account holds a job charge, a worker reward and an emission, and the pool
\* account holds a fee and an inter-pool record
C3_Witness ==
    /\ {"job_charge", "worker_reward", "daily_emission"}
          \subseteq {e.entry_type : e \in LedgerOfAccount(UserAccount(ClientUser))}
    /\ {"pool_fee", "interpool_fee"}
          \subseteq {e.entry_type : e \in LedgerOfAccount(PoolAccount)}
    /\ balance[UserAccount(ClientUser)] # 0

\* C4: whatever a tick plans, every planned worker was online in the tick's read and
\* its assigned/started count plus the assignments planned earlier in the same tick
\* was below its max_concurrency.
C4_TickRespectsCapacity ==
    [][\A t \in dtx' \ dtx : \A k \in 1..Len(t.plan) :
          LET w == t.plan[k].worker
          IN  /\ workers[w].status = "online"
              /\ ActiveCount(w) + Cardinality({i \in 1..(k - 1) : t.plan[i].worker = w})
                    < MaxConcurrency(w)]_vars

\* a tick claimed two jobs and could plan only one: the second found the only
\* online worker full because of the first
C4_Witness ==
    \E t \in dtx :
        /\ Cardinality(t.claimed) = 2
        /\ Len(t.plan) = 1
        /\ MaxConcurrency(t.plan[1].worker) = 1
        /\ \E w \in Workers : workers[w].status # "online"

\* C5: under any interleaving of dispatcher ticks, aborted ones included, no job has
\* more than one dispatcher-created assignment, a queued job becomes running only
\* together with exactly one new assignment, and a job left queued gains none.
C5_OneAssignmentPerQueuedJob ==
    [][/\ \A j \in JobIds' : Cardinality(DispatcherAssignmentsOf(j)') <= 1
       /\ \A j \in JobIds :
             jobs[j].status = "queued" =>
                 LET gained == DispatcherAssignmentsOf(j)' \ DispatcherAssignmentsOf(j)
                 IN  IF jobs'[j].status = "running"
                     THEN Cardinality(gained) = 1
                     ELSE gained = {} /\ jobs'[j].status = "queued"]_vars

\* two ticks are open at once, each with a job of its own planned
C5_Witness ==
    \E t1 \in dtx, t2 \in dtx :
        /\ t1 # t2
        /\ t1.plan # <<>>
        /\ t2.plan # <<>>
        /\ t1.claimed \cap t2.claimed = {}

\* the accepted bodies: correctly signed, carrying the assignment's nonce
AcceptableBodies == {body \in Bodies : body.signature = "valid" /\ body.nonce_ok}

\* the body of a request equals the accepted result of the assignment
ReplayOf(a, body) ==
    /\ Len(results[a]) >= 1
    /\ results[a][1].output = body.output
    /\ results[a][1].error = body.error
    /\ results[a][1].output_hash = body.output_hash

\* C6: a submit request repeating a body that was accepted before is answered 409
\* and leaves results, assignments, workers and ledger as they were.
C6_ReplayRefused ==
    [][\A a \in AssignmentIds : \A body \in AcceptableBodies :
          LET w == assignments[a].worker_id
          IN  (ReplayOf(a, body) /\ (SubmitRefuse(w, a, body) \/ SubmitBegin(w, a, body)))
                 => (resp'[1] = 409 /\ UNCHANGED db)]_vars

\* a replay of a completed, verified submission has just been refused
C6_Witness ==
    /\ resp = <<409, "Assignment already submitted">>
    /\ \E a \in AssignmentIds :
           /\ Len(results[a]) = 1
           /\ assignments[a].status = "completed"
           /\ results[a][1].verification_status = "verified"

\* C7: once a worker is banned no operation gives it another status.
C7_BanIsPermanent ==
    [][\A w \in Workers : workers[w].status = "banned" => workers'[w].status = "banned"]_vars

\* C8: an assignment whose committed status is completed, failed or canceled keeps
\* that status and its finished_at through every later operation.
C8_TerminalAssignmentsStay ==
    [][\A a \in AssignmentIds :
          assignments[a].status \in TerminalStatuses =>
              /\ assignments'[a].status = assignments[a].status
              /\ assignments'[a].finished_at = assignments[a].finished_at]_vars

\* a submission for a failed assignment, finished at an earlier tick, has just been
\* refused
C8_Witness ==
    /\ resp[1] = 409
    /\ \E a \in AssignmentIds :
           /\ assignments[a].status = "failed"
           /\ assignments[a].finished_at >= 0
           /\ assignments[a].finished_at < now

Days == 0..(MaxTime \div TicksPerDay)

EmittedOn(d) ==
    LedgerSum({e \in BagToSet(ledger) :
                  IsDailyEmission(e) /\ e.created_at \div TicksPerDay = d})

\* C9: the daily_emission amounts of one UTC day never sum to more than
\* daily_emission_cap_tokens.
C9_DailyCapRespected == \A d \in Days : EmittedOn(d) <= DailyEmissionCapTokens

\* C10: when a daily_emission entry of the current UTC day exists, a run of the
\* emission writes no entry and credits nothing.
C10_RerunEmitsNothing ==
    [][(EmittedToday > 0 /\ now' = now) => UNCHANGED <<ledger, balance>>]_vars

\* C11: a submission that ends with anything but its 200 answer, whether it failed
\* in verification, in accounting or at the commit, leaves every table as it was:
\* no result, no assignment or worker change, no third assignment, no ledger entry
\* and no balance change.
C11_FailedSubmissionLeavesNoTrace ==
    [][\A t \in stx : (t \notin stx' /\ resp'[1] # 200) => UNCHANGED db]_vars

\* a submission has just ended in a commit conflict while the assignment of another
\* worker for the same job holds its result: the assignment it was for is still
\* assigned, without a result
C11_Witness ==
    /\ resp = <<409, "Concurrent submission conflict">>
    /\ \E a \in AssignmentIds, p \in AssignmentIds :
           /\ assignments[a].status = "assigned"
           /\ assignments[a].finished_at < 0
           /\ ~HasResult(a)
           /\ assignments[p].job_id = assignments[a].job_id
           /\ HasResult(p)

\* the guards of the accounting other than the verification status, on the
\* committed rows
MeetsAccountingGuards(a) ==
    /\ assignments[a].worker_id # NoWorker
    /\ assignments[a].status \notin {"failed", "canceled"}
    /\ jobs[assignments[a].job_id].status \notin {"failed", "canceled"}
    /\ jobs[assignments[a].job_id].created_by_user_id # NoUser
    /\ HasActivePricingRule(jobs[assignments[a].job_id].job_type)

\* C12: every assignment whose committed result is verified and which meets the
\* accounting guards has its job_charge, pool_fee and worker_reward entries, the
\* assignment whose result was pending until the paired submission verified it
\* included.
C12_VerifiedIsAccounted ==
    \A a \in AssignmentIds :
        (HasResult(a) /\ ResultOf(a).verification_status = "verified"
                      /\ MeetsAccountingGuards(a))
            => {"job_charge", "pool_fee", "worker_reward"}
                  \subseteq {e.entry_type : e \in LedgerOfAssignment(a)}

EntriesOf(a, type) ==
    SumOver({e \in LedgerOfAssignment(a) : e.entry_type = type},
            [e \in BagToSet(ledger) |-> CopiesIn(e, ledger)])

\* C13: no assignment ever has more than one job_charge, one pool_fee or one
\* worker_reward entry, and the accounting of an assignment that has its job_charge
\* posts nothing.
C13_AccountedOnce ==
    \A a \in AssignmentIds :
        /\ \A type \in {"job_charge", "pool_fee", "worker_reward"} : EntriesOf(a, type) <= 1
        /\ EntriesOf(a, "job_charge") = 1
              => AccountingPostings(a, assignments[a].status, "verified") = <<>>

\* an assignment has been charged and a further submission for it has just been
\* refused, while a submission for another assignment is open
C13_Witness ==
    /\ resp = <<409, "Assignment already submitted">>
    /\ stx # {}
    /\ \E a \in AssignmentIds : EntriesOf(a, "job_charge") = 1

\* the ledger rows of an assignment that the step has added
PostedFor(a) ==
    {e \in BagToSet(ledger') :
        e.assignment_id = a /\ CopiesIn(e, ledger') > CopiesIn(e, ledger)}

\* the result of the assignment is verified and every guard of the accounting is
\* met, on the rows as the step leaves them
SettleableAfter(a) ==
    /\ results'[a] # <<>>
    /\ results'[a][1].verification_status = "verified"
    /\ assignments'[a].worker_id # NoWorker
    /\ assignments'[a].status \notin {"failed", "canceled"}
    /\ jobs'[assignments'[a].job_id].status \notin {"failed", "canceled"}
    /\ jobs'[assignments'[a].job_id].created_by_user_id # NoUser
    /\ jobs'[assignments'[a].job_id].job_type \in PricedJobTypes

\* C14: ledger entries carrying an assignment id are posted only for an assignment
\* whose result is verified, whose status and whose job's status are neither failed
\* nor canceled, whose job has a creator and whose job type has an active pricing
\* rule; a submission for which one of these fails is still accepted with 200 and
\* leaves ledger, balances and accounts as they were.
C14_AccountingOnlyWhenGuardsHold ==
    [][\A a \in 1..Len(assignments') :
          /\ PostedFor(a) # {} => SettleableAfter(a)
          /\ (Len(results'[a]) > Len(results[a]) /\ ~SettleableAfter(a))
                => (resp' = <<200, "">> /\ UNCHANGED <<ledger, balance, accounts>>)]_vars

\* a verified, completed submission for a job of a type without pricing rule has
\* just been answered 200 and nothing was posted
C14_Witness ==
    /\ resp = <<200, "">>
    /\ ledger = EmptyBag
    /\ \E a \in AssignmentIds :
           /\ HasResult(a)
           /\ ResultOf(a).verification_status = "verified"
           /\ assignments[a].status = "completed"
           /\ jobs[assignments[a].job_id].job_type \notin PricedJobTypes

\* max(1, ceil(payload_chars / 1000))
UnitsCharged(payload_chars) ==
    IF payload_chars <= 1000 THEN 1
    ELSE payload_chars \div 1000 + (IF payload_chars % 1000 = 0 THEN 0 ELSE 1)

CostCharged(j) == UnitsCharged(jobs[j].payload_chars) * UnitCostOf(jobs[j].job_type)

\* fee is cost * pool_fee_bps / 10000 rounded to a whole quantum, a half to the even one
IsRoundedFee(fee, cost) ==
    LET excess == 10000 * fee - cost * PoolFeeBps
    IN  /\ excess >= 0 - 5000
        /\ excess <= 5000
        /\ excess \in {0 - 5000, 5000} => fee % 2 = 0

\* the step posts for assignment a exactly the three entries of this cost and fee,
\* one row each, and moves every balance by the amounts posted to it
PostsThree(a, cost, fee) ==
    LET j == assignments[a].job_id
        posted == PostedFor(a)
    IN  /\ {<<e.entry_type, e.account, e.amount>> : e \in posted}
              = { <<"job_charge", UserAccount(jobs[j].created_by_user_id), 0 - cost>>,
                  <<"pool_fee", PoolAccount, fee>>,
                  <<"worker_reward", UserAccount(OwnerOf(assignments[a].worker_id)),
                    cost - fee>> }
        /\ \A e \in posted : CopiesIn(e, ledger') = CopiesIn(e, ledger) + 1
        /\ \A e \in posted : e.job_id = j
        /\ \A k \in AccountKeys :
              balance'[k] - balance[k]
                 = SumOver({e \in posted : e.account = k}, [e \in posted |-> e.amount])

\* C15 as stated: the fee posted is exactly cost * pool_fee_bps / 10000.
C15_ExactFeePosted ==
    [][\A a \in AssignmentIds :
          PostedFor(a) # {} =>
              \E fee \in 0..CostCharged(assignments[a].job_id) :
                  /\ 10000 * fee = CostCharged(assignments[a].job_id) * PoolFeeBps
                  /\ PostsThree(a, CostCharged(assignments[a].job_id), fee)]_vars

\* C15: the accounting of a verified job posts exactly three entries, -cost on the
\* client's account, +pool_fee on the pool account and +(cost - pool_fee) on the
\* worker owner's account, where cost is max(1, ceil(chars / 1000)) units at the unit
\* cost and pool_fee is cost * pool_fee_bps / 10000 rounded to 8 decimals, a half
\* to the even digit; each balance moves by what was posted to it.
C15_RoundedFeePosted ==
    [][\A a \in AssignmentIds :
          PostedFor(a) # {} =>
              \E fee \in 0..CostCharged(assignments[a].job_id) :
                  /\ IsRoundedFee(fee, CostCharged(assignments[a].job_id))
                  /\ PostsThree(a, CostCharged(assignments[a].job_id), fee)]_vars

\* a job of one unit at cost 15 has been settled: the fee of 1.5 was posted as 2
C15_Witness ==
    /\ resp = <<200, "">>
    /\ balance[PoolAccount] = 2
    /\ \E a \in AssignmentIds :
           {<<e.entry_type, e.amount>> : e \in LedgerOfAssignment(a)}
              = {<<"job_charge", 0 - 15>>, <<"pool_fee", 2>>, <<"worker_reward", 13>>}

\* the step has committed the result of assignment a
Submitted(a) == Len(results'[a]) > Len(results[a])

\* the similarity of two embeddings is defined and at least the threshold, compared
\* through the norms
AtOrAboveThreshold(u, v) ==
    /\ Len(u) > 0
    /\ Len(u) = Len(v)
    /\ Norm(u) * Norm(v) > 0
    /\ Dot(u, v) * EmbedThresholdDen >= EmbedThresholdNum * Norm(u) * Norm(v)

\* the committed submission of a was compared against the result of its peer
ComparedWithPeer(a) ==
    /\ Submitted(a)
    /\ jobs[assignments[a].job_id].canonical_expected_hash = "NULL"
    /\ PeerAssignment(a) # 0

\* how many of the assignments a and p are bound to worker w
BoundTo(w, a, p) ==
    (IF assignments[a].worker_id = w THEN 1 ELSE 0)
    + (IF assignments[p].worker_id = w THEN 1 ELSE 0)

\* C16: when the submission for a non-canonical job finds a peer result and the
\* similarity is at or above the threshold, equality included, both results are
\* verified with the same score, which is at least the threshold, and the
\* reputation of the worker of each of the two assignments rises by 0.01 for that
\* assignment, capped at 1.0.
C16_MatchVerifiesBoth ==
    [][\A a \in AssignmentIds :
          LET p == PeerAssignment(a)
          IN  (ComparedWithPeer(a)
               /\ AtOrAboveThreshold(results[p][1].output, results'[a][1].output))
              => /\ results'[a][1].verification_status = "verified"
                 /\ results'[p][1].verification_status = "verified"
                 /\ results'[a][1].verification_score = results'[p][1].verification_score
                 /\ results'[a][1].verification_score * EmbedThresholdDen
                       >= EmbedThresholdNum * ScoreScale
                 /\ results'[a][1].verification_score <= ScoreScale
                 /\ \A w \in Workers :
                       workers'[w].reputation
                          = Min(100, workers[w].reputation + BoundTo(w, a, p))]_vars

\* the results of two workers whose embeddings have similarity 0.985, exactly the
\* threshold, are verified with that score, and both reputations went up by 0.01
C16_Witness ==
    /\ resp = <<200, "">>
    /\ \E a \in AssignmentIds, p \in AssignmentIds :
           /\ assignments[a].job_id = assignments[p].job_id
           /\ assignments[a].worker_id = 1
           /\ assignments[p].worker_id = 2
           /\ HasResult(a)
           /\ HasResult(p)
           /\ ResultOf(a).output # ResultOf(p).output
           /\ ResultOf(a).verification_status = "verified"
           /\ ResultOf(p).verification_status = "verified"
           /\ ResultOf(a).verification_score = 98500
           /\ ResultOf(p).verification_score = 98500
    /\ workers[1].reputation = DefaultReputation + 1
    /\ workers[2].reputation = DefaultReputation + 1

\* the assignments rows the step has added
AddedAssignments == (Len(assignments) + 1)..Len(assignments')

\* C17: when the submission for a non-canonical job finds a peer result and the
\* similarity is below the threshold or undefined, both results are disputed and,
\* if the job had fewer than three assignments, exactly one assignment of the job
\* with no worker and status assigned is added, none otherwise; no step in which the
\* verifier adds an assignment leaves a job with more than three.
C17_MismatchDisputesBoth ==
    [][/\ \A a \in AssignmentIds :
             LET p == PeerAssignment(a)
                 j == assignments[a].job_id
             IN  (ComparedWithPeer(a)
                  /\ ~AtOrAboveThreshold(results[p][1].output, results'[a][1].output))
                 => /\ results'[a][1].verification_status = "disputed"
                    /\ results'[p][1].verification_status = "disputed"
                    /\ IF Cardinality(AssignmentsOfJob(j)) < 3
                       THEN /\ Cardinality(AddedAssignments) = 1
                            /\ \A n \in AddedAssignments :
                                  /\ assignments'[n].job_id = j
                                  /\ assignments'[n].worker_id = NoWorker
                                  /\ assignments'[n].status = "assigned"
                       ELSE AddedAssignments = {}
       /\ \A n \in AddedAssignments :
             assignments'[n].nonce_prefix = "audit-third"
                => Cardinality({m \in 1..Len(assignments') :
                                   assignments'[m].job_id = assignments'[n].job_id}) <= 3]_vars

\* a job with three worker-bound assignments: the third submission, an error
\* without output, was disputed against the first result and no assignment was added
C17_Witness ==
    /\ resp = <<200, "">>
    /\ Len(assignments) = 3
    /\ \A a \in AssignmentIds : assignments[a].worker_id # NoWorker /\ HasResult(a)
    /\ ResultOf(3).error
    /\ ResultOf(3).verification_status = "disputed"
    /\ ResultOf(1).verification_status = "disputed"

\* C18: every accepted submission for a job with a canonical hash whose output_hash
\* differs is rejected with score 0, its assignment is failed, and its worker's
\* rejected_submissions counter goes up by one; the worker is banned in the same
\* step once the counter has reached fraud_ban_threshold.
C18_WrongHashRejectedAndCounted ==
    [][\A a \in AssignmentIds :
          LET w == assignments[a].worker_id
              expected == jobs[assignments[a].job_id].canonical_expected_hash
          IN  (Submitted(a) /\ expected # "NULL"
                            /\ results'[a][1].output_hash # expected)
              => /\ results'[a][1].verification_status = "rejected"
                 /\ results'[a][1].verification_score = 0
                 /\ assignments'[a].status = "failed"
                 /\ workers'[w].rejected_submissions = workers[w].rejected_submissions + 1
                 /\ workers'[w].rejected_submissions >= FraudBanThreshold
                       => workers'[w].status = "banned"
                 /\ workers'[w].rejected_submissions < FraudBanThreshold
                       => workers'[w].status = workers[w].status]_vars

\* a worker has submitted a wrong hash for each of two audit jobs: both results are
\* rejected, both assignments failed, and the worker is banned at the second
C18_Witness ==
    /\ resp = <<200, "">>
    /\ \E w \in Workers :
           /\ workers[w].status = "banned"
           /\ workers[w].rejected_submissions = FraudBanThreshold
           /\ Cardinality({a \in AssignmentIds :
                              /\ assignments[a].worker_id = w
                              /\ assignments[a].status = "failed"
                              /\ HasResult(a)
                              /\ ResultOf(a).verification_status = "rejected"})
                 = FraudBanThreshold

\* C19: every reputation the verifier writes lies in [0, 1]: it is the old value
\* plus 0.01 for a verified result, never above 1.0, or the old value minus 0.05
\* for a rejected one, never below 0.0.
C19_ReputationStaysInRange ==
    [][\A w \in Workers :
          workers'[w] # workers[w] =>
              LET old == workers[w].reputation
                  stepped == IF workers'[w].rejected_submissions
                                   = workers[w].rejected_submissions
                             THEN old + 1 ELSE old - 5
              IN  /\ workers'[w].reputation \in 0..100
                  /\ workers'[w].reputation
                        = (IF stepped > 100 THEN 100 ELSE IF stepped < 0 THEN 0
                           ELSE stepped)]_vars

\* one worker's reputation has saturated at 1.0 and the other's, after rejections,
\* at 0.0
C19_Witness ==
    /\ workers[1].reputation = 100
    /\ workers[1].rejected_submissions = 0
    /\ workers[2].reputation = 0
    /\ workers[2].rejected_submissions = MaxRejections
    /\ workers[2].status = "banned"

\* the load the loop sees for worker w when it reaches job j of tick t: the active
\* assignments read at the start plus what the tick gave w for the jobs before j
LoadSeen(t, j, w) ==
    ActiveCount(w) + Cardinality({k \in 1..Len(t.plan) :
                                     /\ t.plan[k].worker = w
                                     /\ JobBefore(t.plan[k].job, j)})

MayTake(t, j, w) ==
    /\ workers[w].status = "online"
    /\ HasSettings(w)
    /\ AcceptNewAssignments(w)
    /\ LoadSeen(t, j, w) < MaxConcurrency(w)
    /\ WorkerPriceMultiplier(w) <= jobs[j].price_multiplier

SortKey(t, j, w) ==
    <<0 - workers[w].reputation, EstimatedLatencyMs(w), LoadSeen(t, j, w), w>>

KeyAtMost(x, y) ==
    \/ x = y
    \/ \E i \in 1..4 : x[i] < y[i] /\ \A h \in 1..(i - 1) : x[h] = y[h]

\* C20: for each job a dispatcher tick claims, the worker it selects is eligible
\* (settings present, accepting, load below max_concurrency, price at most the
\* job's) and has the least (-reputation, estimated_latency_ms, load, id) among the
\* eligible workers; a job is left unassigned only when no worker is eligible.
C20_SelectsBestEligibleWorker ==
    [][\A t \in dtx' \ dtx :
          /\ \A k \in 1..Len(t.plan) :
                LET j == t.plan[k].job
                    sel == t.plan[k].worker
                IN  /\ j \in t.claimed
                    /\ MayTake(t, j, sel)
                    /\ \A v \in WorkerIds :
                          MayTake(t, j, v) => KeyAtMost(SortKey(t, j, sel), SortKey(t, j, v))
          /\ \A j \in t.claimed \ PlannedJobs(t) :
                \A v \in WorkerIds : ~MayTake(t, j, v)
          /\ \A k, h \in 1..Len(t.plan) : t.plan[k].job = t.plan[h].job => k = h]_vars

\* S1: workers 1 and 2 tie on reputation, worker 3 has the highest reputation but
\* asks twice the job's price; the tick gives the job to worker 2
C20_Witness ==
    /\ {1, 2, 3} \subseteq OnlineWorkers
    /\ \E t \in dtx :
          /\ Len(t.plan) = 1
          /\ jobs[t.plan[1].job].price_multiplier = 1
          /\ t.plan[1].worker = 2
          /\ ActiveCount(3) = 0

\* the assignments _ensure_third_assignment left without a worker
ThirdOpinions ==
    {a \in AssignmentIds : assignments[a].worker_id = NoWorker
                              /\ assignments[a].status = "assigned"}

\* worker w passes every filter of the dispatcher for the job of assignment a
CanTake(w, a) ==
    /\ workers[w].status = "online"
    /\ HasSettings(w)
    /\ AcceptNewAssignments(w)
    /\ ActiveCount(w) < MaxConcurrency(w)
    /\ WorkerPriceMultiplier(w) <= jobs[assignments[a].job_id].price_multiplier

\* C21: a third-opinion assignment (worker_id null, status assigned) is eventually
\* bound to a worker by a later dispatcher tick, unless at some point no online
\* eligible worker with free capacity is available.
C21_ThirdOpinionEventuallyBound ==
    \A a \in 1..MaxAssignments :
        (a \in ThirdOpinions)
            ~> (a \notin ThirdOpinions \/ ~(\E w \in WorkerIds : CanTake(w, a)))

\* worker w passes every filter of the dispatcher for job j
EligibleFor(w, j) ==
    /\ workers[w].status = "online"
    /\ HasSettings(w)
    /\ AcceptNewAssignments(w)
    /\ ActiveCount(w) < MaxConcurrency(w)
    /\ WorkerPriceMultiplier(w) <= jobs[j].price_multiplier

Unassigned(j) == j \in JobIds /\ jobs[j].status = "queued"

\* C22: a job left queued is reconsidered on every later tick: each tick that
\* begins while the job is queued, not locked by another tick, and a worker
\* eligible for it is available claims the job, however many unassignable queued
\* jobs of higher priority or lower id are ahead of it.
C22_QueuedJobReconsideredEveryTick ==
    [][\A t \in dtx' \ dtx :
          \A j \in JobIds :
              (/\ Unassigned(j)
               /\ j \notin LockedJobs
               /\ \E w \in WorkerIds : EligibleFor(w, j)) => j \in t.claimed]_vars

\* a step in which poll_job answers
PollAnswered == resp = NoResponse /\ resp' # NoResponse /\ request'.kind = "poll"

IsEarliestAssigned(a, w) ==
    /\ a \in AssignmentIds
    /\ assignments[a].worker_id = w
    /\ assignments[a].status = "assigned"
    /\ ~HasResult(a)
    /\ \A b \in AssignmentIds :
          assignments[b].worker_id = w /\ assignments[b].status = "assigned"
              => assignments[a].assigned_at <= assignments[b].assigned_at

RequestHandled ==
    /\ resp = NoResponse
    /\ request' # request \/ resp' # NoResponse

\* C24: a heartbeat, poll or submission naming a worker the caller does not own is
\* refused with 404 and changes no worker, heartbeat, assignment, result or ledger
\* state; a submission is accepted only for an assignment bound to the named worker,
\* which the caller owns.
C24_OnlyOwnersAct ==
    [][/\ RequestHandled /\ OwnerOf(request'.worker) # request'.user
          => /\ resp' = WorkerNotFound
             /\ UNCHANGED <<workers, heartbeats, assignments, results, accounts, balance,
                            ledger, events, calls, stx>>
       /\ \A r \in calls' : OwnerOf(r.worker) = r.user
       /\ \A t \in stx' \ stx :
             \E r \in calls \ calls' :
                 /\ t.assignment = r.assignment
                 /\ assignments[t.assignment].worker_id = r.worker
                 /\ OwnerOf(r.worker) = r.user]_vars

\* user 3 submitted for worker 2, which holds an assignment waiting for its result,
\* and was refused
C24_Witness ==
    /\ request = Asked("submit", 3, 2)
    /\ resp = WorkerNotFound
    /\ \E a \in AssignmentIds :
          assignments[a].worker_id = 2 /\ assignments[a].status = "assigned"

\* the refusals of submit_job between the rate limiter and the insertion of the Result
GuardRefusals ==
    { <<400, "Worker public key is not configured">>,
      <<400, "Invalid signature encoding">>,
      <<400, "Signature verification failed">>,
      <<400, "Invalid nonce">>,
      <<409, "Assignment is not in a submittable state">> }

CorrectBody ==
    [signature |-> "valid", nonce_ok |-> TRUE, error |-> FALSE, output |-> <<1, 0>>,
     output_hash |-> "expected-hash"]

\* C25: a submission refused for a missing public key, a malformed or invalid
\* signature, a nonce mismatch or an assignment not in assigned/started creates no
\* Result and changes no assignment, worker or ledger state, so an assignment a
\* correct submission could be submitted for before still can be afterwards.
C25_RefusedSubmissionLeavesNoTrace ==
    [][resp = NoResponse /\ resp' \in GuardRefusals =>
          /\ UNCHANGED <<results, assignments, workers, accounts, balance, ledger, jobs,
                         stx>>
          /\ \A r \in calls \ calls' :
                SubmitRefusal(r.worker, r.assignment, CorrectBody) = NoResponse
                    => (SubmitRefusal(r.worker, r.assignment, CorrectBody) = NoResponse)']_vars

\* worker 2's submission for its assignment was refused for its nonce; the
\* assignment is still assigned and without result
C25_Witness ==
    /\ request = Asked("submit", 2, 2)
    /\ resp = <<400, "Invalid nonce">>
    /\ \E a \in AssignmentIds :
          /\ assignments[a].worker_id = 2
          /\ assignments[a].status = "assigned"
          /\ assignments[a].finished_at = 0 - 1
          /\ ~HasResult(a)
          /\ SubmitRefusal(2, a, CorrectBody) = NoResponse

\* C26: when submit_job consults the worker's rate limiter, the request has not yet
\* read from or written to the database.
C26_LimiterBeforeDatabase ==
    \A r \in calls : r.pc = "allow" => r.db_reads = 0

\* the calls for key w that returned true and read their clock in the window of
\* WindowTicks ticks that starts at t
GrantedIn(w, t) ==
    {i \in 1..Len(granted[w]) : granted[w][i].at \in t..(t + WindowTicks - 1)}

\* C27: for each key, allow returns true for at most max_requests calls within any
\* window of window_seconds, also when calls run concurrently.
C27_AtMostMaxRequestsPerWindow ==
    \A w \in DOMAIN granted : \A t \in 0..MaxTime :
        Cardinality(GrantedIn(w, t)) <= SubmitRateLimitPerMinute

EmissionEntriesToday ==
    {e \in BagToSet(ledger) :
        IsDailyEmission(e) /\ e.created_at \div TicksPerDay = now \div TicksPerDay}

AtOrAfterCronTime ==
    Hour * 60 + Minute >= DailyEmissionCronHourUtc * 60 + DailyEmissionCronMinuteUtc

\* the step is an iteration of the emission loop that called run_daily_emission
EmissionLoopInvokes ==
    sched.emission = "loop" /\ sched'.emission = "waiting" /\ sched'.invoked

SchedulerEmittedOn(d) ==
    {i \in 1..Len(sched.emitted_at) : sched.emitted_at[i] \div TicksPerDay = d}

\* C28: the emission loop calls run_daily_emission only at or after the configured
\* cron time of the day and when the current UTC day has no daily_emission entry yet,
\* so at most one run triggered by the loop emits tokens on any UTC day.
C28_LoopEmitsOncePerDayAfterCron ==
    /\ [][EmissionLoopInvokes => AtOrAfterCronTime /\ EmissionEntriesToday = {}]_vars
    /\ [](\A d \in Days : Cardinality(SchedulerEmittedOn(d)) <= 1)

\* the loop emitted earlier today and its last iteration, after the cron time, did
\* not run the emission again
C28_Witness ==
    /\ Len(sched.emitted_at) = 1
    /\ sched.emitted_at[1] \div TicksPerDay = now \div TicksPerDay
    /\ sched.emission = "waiting"
    /\ ~sched.invoked
    /\ AtOrAfterCronTime
    /\ EmissionEntriesToday # {}

\* C29: once the stop event is set no loop starts another iteration, each loop ends
\* after at most the iteration it is in, and the shutdown completes, with both tasks
\* ended and no dispatcher transaction left open.
C29_StopEndsLoopsAndShutdown ==
    /\ [][sched.stop_event =>
              /\ ~(sched.dispatch = "loop" /\ sched'.dispatch \in {"running", "waiting"})
              /\ ~(sched.emission = "loop" /\ sched'.emission = "waiting")]_vars
    /\ [](sched.lifespan = "stopped" =>
              sched.dispatch = "done" /\ sched.emission = "done" /\ dtx = {})
    /\ (sched.stop_event ~> sched.lifespan = "stopped")

\* the shutdown completed after the dispatcher assigned a job and the emission loop
\* paid a day
C29_Witness ==
    /\ sched.lifespan = "stopped"
    /\ sched.dispatch = "done"
    /\ sched.emission = "done"
    /\ assignments # <<>>
    /\ sched.emitted_at # <<>>

\* C30: the estimated_units an internal job creation returns equal the units the
\* accounting later derives from the payload of the job it stored.
C30_EstimateEqualsChargedUnits ==
    resp[1] = 201 =>
        resp[2] = ToString(EstimatePayloadUnits(jobs[Len(jobs)].payload_chars))

\* the ticks of the 24h window that start within [heartbeat, heartbeat + timeout]
\* of a heartbeat _calculate_uptime_ratio reads, each once
CoveredUnion(w) ==
    {u \in WindowStart..(now - 1) :
        \E t \in UptimePoints(w) : t <= u /\ u < t + HeartbeatTimeoutTicks(w)}

\* C31: a worker's covered time is the measure of the union of its heartbeat
\* intervals clipped to the window: time covered by several overlapping intervals
\* counts once.
C31_CoveredIsMeasureOfUnion ==
    \A w \in WorkerIds : CoveredTicks(w) = Cardinality(CoveredUnion(w))

\* the accepted submissions of worker w that the verifier rejected
RejectedSubmissionsOf(w) ==
    {a \in AssignmentIds :
        /\ assignments[a].worker_id = w
        /\ results[a] # <<>>
        /\ results[a][1].verification_status = "rejected"}

\* C32: concurrent accepted submissions of one worker all take effect on its
\* counter of rejected submissions, as in a serial order of them: the committed
\* counter, which decides the ban, equals the number of the worker's rejected
\* submissions.
C32_NoLostWorkerUpdate ==
    \A w \in WorkerIds :
        workers[w].rejected_submissions = Cardinality(RejectedSubmissionsOf(w))

\* C33: for a job without canonical hash and with two assignments, once both
\* submissions are accepted neither result is pending: both are verified or both
\* are disputed, under any interleaving of the two submissions.
C33_BothSubmittedNonePending ==
    \A j \in JobIds :
        LET submitted == {a \in AssignmentsOfJob(j) : results[a] # <<>>}
        IN  /\ jobs[j].canonical_expected_hash = "NULL"
            /\ Cardinality(AssignmentsOfJob(j)) = 2
            /\ submitted = AssignmentsOfJob(j)
            => \/ \A a \in submitted : results[a][1].verification_status = "verified"
               \/ \A a \in submitted : results[a][1].verification_status = "disputed"

\* C34 as stated: the gateway returns the output only when the coordinator reported
\* the job verified before the poll timeout elapsed; once the timeout has elapsed
\* first the answer is the 503.
C34_TimeoutFirstMeans503 ==
    gw.answer = 200 => gw.reported = "verified" /\ gw.verified_at < gw.timeout_at

\* C34: the gateway returns the output only after a poll reported the job verified;
\* when the deadline has passed at the head of an iteration it sends the cancel
\* request and answers 503, whatever becomes of the cancel request; the 503 is given
\* only then.
C34_OutputOnlyWhenVerifiedElseCancelAnd503 ==
    /\ [](gw.answer = 200 => gw.reported = "verified")
    /\ [](gw.answer = 503 =>
             gw.cancel # "none" /\ now >= gw.timeout_at /\ gw.reported # "verified")
    /\ [][gw.pc = "test" /\ now >= gw.timeout_at /\ gw' # gw
             => gw'.pc = "cancelling"]_vars
    /\ [][gw.pc = "cancelling" /\ gw' # gw
             => gw'.answer = 503 /\ gw'.cancel # "none"]_vars

\* the job was polled and not verified, the deadline passed, the cancel request
\* raised and the gateway answers 503
C34_Witness ==
    /\ gw.answer = 503
    /\ gw.cancel = "raised"
    /\ gw.polls > 0
    /\ gw.reported = "running"

\* C35: with dispatcher instances running ticks concurrently on disjoint sets of
\* claimed jobs, no worker holds more assigned or started assignments than its
\* max_concurrency.
C35_ConcurrentTicksRespectCapacity ==
    \A w \in WorkerIds : ActiveCount(w) <= MaxConcurrency(w)

\* C36: when emission runs of one UTC day overlap, the day's daily_emission entries
\* still sum to no more than the cap.
C36_OverlappingRunsRespectCap ==
    \A d \in Days :
        LedgerSum({e \in BagToSet(ledger) :
                      IsDailyEmission(e) /\ e.created_at \div TicksPerDay = d})
            <= DailyEmissionCapTokens

\* C37: when transactions posting to one account overlap, all their amounts are in
\* the committed balance: every account's balance is the sum of its ledger entries.
C37_OverlappingPostingsKeepBalance ==
    \A k \in accounts :
        balance[k] = SumOver(LedgerOfAccount(k),
                             [e \in LedgerOfAccount(k) |-> e.amount * CopiesIn(e, ledger)])

\* a result that is verified and whose assignment has been charged in the ledger
VerifiedAndSettled(a) ==
    /\ a \in AssignmentIds
    /\ HasResult(a)
    /\ ResultOf(a).verification_status = "verified"
    /\ HasJobCharge(a)

RelayedInStep(j) ==
    CopiesIn(InterpoolFeeRow(j), ledger') > CopiesIn(InterpoolFeeRow(j), ledger)

\* C39: a step that stores a result or rewrites a result's verification state
\* leaves every job's status as it was; a job's status changes only from queued
\* to running, in a dispatcher tick that adds assignments, or to completed or
\* failed, in a relay of that job's result.
C39_OnlyDispatchAndRelayWriteJobStatus ==
    [][\A j \in JobIds :
          /\ results' # results => jobs'[j].status = jobs[j].status
          /\ jobs'[j].status # jobs[j].status =>
                \/ /\ jobs[j].status = "queued" /\ jobs'[j].status = "running"
                   /\ Len(assignments') > Len(assignments)
                \/ /\ jobs'[j].status \in {"completed", "failed"}
                   /\ RelayedInStep(j)]_vars

\* a dispatched job whose result has been verified or rejected is still running
C39_Witness ==
    \E a \in AssignmentIds :
        /\ HasResult(a)
        /\ ResultOf(a).verification_status \in {"verified", "rejected"}
        /\ HasJobCharge(a) \/ assignments[a].status = "failed"
        /\ jobs[assignments[a].job_id].status = "running"

\* the request being served is a submission by worker w, asked by w's owner
SubmissionBy(w) ==
    /\ request.kind = "submit"
    /\ request.worker = w
    /\ request.user = OwnerOf(w)

\* C40: an assignment in status assigned keeps its worker and its job, and it
\* leaves that status only in the commit of a submission by its own worker that
\* stores its result; until then it is among its worker's active assignments.
C40_AssignedLeavesOnlyByOwnSubmission ==
    [][\A a \in AssignmentIds :
          assignments[a].status = "assigned" =>
             /\ assignments'[a].worker_id = assignments[a].worker_id
             /\ assignments'[a].job_id = assignments[a].job_id
             /\ assignments'[a].status # "assigned" =>
                   /\ SubmissionBy(assignments[a].worker_id)
                   /\ \E t \in stx : t.assignment = a /\ stx' = stx \ {t}
                   /\ ~HasResult(a)
                   /\ results'[a] # <<>>
             /\ assignments'[a].status = "assigned" =>
                   ActiveCount(assignments[a].worker_id)' >= 1]_vars

\* after a later tick's assignment was submitted and completed, after an emission
\* run and while its worker polls, an assignment of an earlier tick that was never
\* submitted is still assigned and counted for its worker
C40_Witness ==
    \E a \in AssignmentIds :
        /\ assignments[a].status = "assigned"
        /\ assignments[a].assigned_at < now
        /\ ActiveCount(assignments[a].worker_id) >= 1
        /\ \E e \in BagToSet(ledger) : IsDailyEmission(e)
        /\ \E b \in AssignmentIds : b > a /\ assignments[b].status = "completed"
        /\ request = Asked("poll", OwnerOf(assignments[a].worker_id),
                           assignments[a].worker_id)

====
